---- MODULE Spec2Model ----
(***************************************************************************)
(* Model of the scrobble deduplicator's scan: the page walk                *)
(* (processScrobblesFromStartToEndPage), the duration resolution           *)
(* (getTrackDuration) and the pairwise classification                      *)
(* (detectDuplicateScrobble / detectIncompleteScrobble) of                 *)
(* internal/app/app.go.                                                    *)
(*                                                                         *)
(* Units: a time.Duration is a number of milliseconds here (Go counts      *)
(* nanoseconds); a timestamp is a number of seconds since the epoch, as    *)
(* generateScrobble builds it with time.Unix(timestampInt, 0).             *)
(***************************************************************************)
EXTENDS Integers, Sequences, FiniteSets, TLC

(***************************************************************************)
(* Bounds of the model.                                                    *)
(***************************************************************************)
\* The highest page number getStartPage returns.
MaxStartPage == 2
\* The number of scrobbles in the library, in a run that resolves durations
\* in every way and in a run whose resolutions are settled beforehand.
MaxScrobbles == 2
MaxWalkScrobbles == 4

(***************************************************************************)
(* Program constants.                                                      *)
(***************************************************************************)
\* time.Millisecond and time.Second in model units (milliseconds).
Millisecond == 1
Second == 1000
\* backoff.WithMaxTries(10) around the MusicBrainz search.
SearchMaxTries == 10
\* backoff.WithMaxTries(3) around getScrobbles.
PageMaxTries == 3
\* retryCount passed to deleteScrobbleWithRetries.
DeleteMaxTries == 3
\* float64 has a 53-bit significand.
MantissaBits == 53

(***************************************************************************)
(* Input domains.                                                          *)
(***************************************************************************)
Artists == {"A", "B"}
Tracks == {"X", "Y"}
\* The (artist, track) pairs that occur in the scanned history.
Songs == {<<"A", "X">>, <<"A", "Y">>}
Timestamps == {0, 60}
\* Timestamps of the pairs handed to the classifier on its own.
PairTimestamps == {0, 29, 60, 239}
\* Duration strings as time.Duration.String prints them, and two strings
\* time.ParseDuration rejects.
DurationStrings == {"4m0s", "50s", "0s", "-1s"}
BadDurationString == "4:00"

(***************************************************************************)
(* time.ParseDuration and time.Duration.String on the strings and          *)
(* durations of the model.  ParseDuration returns (0, err) on a string it  *)
(* cannot parse.                                                           *)
(***************************************************************************)
ParseDuration(str) ==
    CASE str = "4m0s" -> [d |-> 4 * 60 * Second, err |-> FALSE]
      [] str = "50s" -> [d |-> 50 * Second, err |-> FALSE]
      [] str = "0s" -> [d |-> 0, err |-> FALSE]
      [] str = "-1s" -> [d |-> -Second, err |-> FALSE]
      [] OTHER -> [d |-> 0, err |-> TRUE]

DurationString(d) ==
    CASE d = 4 * 60 * Second -> "4m0s"
      [] d = 50 * Second -> "50s"
      [] d = 0 -> "0s"
      [] d = -Second -> "-1s"

(***************************************************************************)
(* float64 arithmetic, as detectDuplicateScrobble and                      *)
(* detectIncompleteScrobble use it: IEEE 754 binary64 with                 *)
(* round-to-nearest, ties-to-even.  A positive finite value is             *)
(* [m |-> its 53 significand bits, most significant first, e |-> the       *)
(* exponent of the first bit], i.e. 1.m[2]m[3]... * 2^e.                   *)
(***************************************************************************)
RECURSIVE BitsToInt(_)
BitsToInt(bits) ==
    IF bits = <<>> THEN 0
    ELSE 2 * BitsToInt(SubSeq(bits, 1, Len(bits) - 1)) + bits[Len(bits)]

RECURSIVE IntToBits(_)
IntToBits(n) == IF n = 0 THEN <<>> ELSE Append(IntToBits(n \div 2), n % 2)

\* Scale num/den into [1, 2): num/den * 2^e is the quotient asked for.
RECURSIVE F64Exponent(_, _, _)
F64Exponent(num, den, e) ==
    IF num >= 2 * den THEN F64Exponent(num, 2 * den, e + 1)
    ELSE IF num < den THEN F64Exponent(2 * num, den, e - 1)
    ELSE [num |-> num, den |-> den, e |-> e]

\* bits + 1 in the last place, for a significand that is not all ones.
RECURSIVE F64Increment(_, _)
F64Increment(bits, i) ==
    IF bits[i] = 0 THEN [bits EXCEPT ![i] = 1]
    ELSE F64Increment([bits EXCEPT ![i] = 0], i - 1)

F64Round(bits, e, up) ==
    IF ~up THEN [m |-> bits, e |-> e]
    ELSE IF \A i \in 1..Len(bits) : bits[i] = 1
         THEN [m |-> [i \in 1..Len(bits) |-> IF i = 1 THEN 1 ELSE 0], e |-> e + 1]
         ELSE [m |-> F64Increment(bits, Len(bits)), e |-> e]

\* Long division: the first n bits of (rem + den) / den and the remainder.
RECURSIVE F64DivBits(_, _, _, _)
F64DivBits(rem, den, n, acc) ==
    IF Len(acc) = n THEN [bits |-> acc, rem |-> rem]
    ELSE IF 2 * rem >= den
         THEN F64DivBits(2 * rem - den, den, n, Append(acc, 1))
         ELSE F64DivBits(2 * rem, den, n, Append(acc, 0))

\* float64(a) / float64(b) for integers a, b > 0 that float64 holds exactly.
F64Div(a, b) ==
    LET s == F64Exponent(a, b, 0)
        q == F64DivBits(s.num - s.den, s.den, MantissaBits, <<1>>)
        up == 2 * q.rem > s.den \/ (2 * q.rem = s.den /\ q.bits[MantissaBits] = 1)
    IN F64Round(q.bits, s.e, up)

\* The exact product of the significand and the small integer k, in bits.
RECURSIVE F64MulBits(_, _, _, _)
F64MulBits(bits, k, carry, acc) ==
    LET i == Len(bits) - Len(acc)
        s == k * bits[i] + carry
    IN IF i = 0 THEN IntToBits(carry) \o acc
       ELSE IF s % 2 = 1
            THEN F64MulBits(bits, k, s \div 2, <<1>> \o acc)
            ELSE F64MulBits(bits, k, s \div 2, <<0>> \o acc)

\* x * float64(k) for a positive finite x and an integer k >= 1.
F64MulInt(x, k) ==
    LET prod == F64MulBits(x.m, k, 0, <<>>)
        len == Len(prod)
        bits == SubSeq(prod, 1, MantissaBits)
        up == /\ len > MantissaBits
              /\ prod[MantissaBits + 1] = 1
              /\ \/ bits[MantissaBits] = 1
                 \/ \E i \in (MantissaBits + 2)..len : prod[i] = 1
    IN F64Round(bits, x.e + (len - MantissaBits), up)

\* The integer part of a positive finite x (x below 2^30).
F64Floor(x) == IF x.e < 0 THEN 0 ELSE BitsToInt(SubSeq(x.m, 1, x.e + 1))

Abs(n) == IF n < 0 THEN -n ELSE n

\* TRUE iff the positive finite x has no fractional part.
F64IsInteger(x) ==
    x.e >= 0 /\ \A i \in 1..MantissaBits : i > x.e + 1 => x.m[i] = 0

(***************************************************************************)
(* (float64(elapsed) / float64(trackDuration)) * 100, the completion       *)
(* percentage before it is capped.  Both operands are integers float64     *)
(* holds exactly, so the quotient is the correctly rounded quotient of the *)
(* two integers, whatever unit they share.  A division by zero gives an    *)
(* infinity, 0/0 gives NaN.                                                *)
(***************************************************************************)
completionPercentage(elapsed, trackDuration) ==
    IF trackDuration = 0
    THEN IF elapsed = 0 THEN [kind |-> "NaN"]
         ELSE [kind |-> "Inf", neg |-> elapsed < 0]
    ELSE IF elapsed = 0 THEN [kind |-> "zero"]
    ELSE [kind |-> "finite",
          neg |-> (elapsed < 0) # (trackDuration < 0),
          abs |-> F64MulInt(F64Div(Abs(elapsed), Abs(trackDuration)), 100)]

\* The elapsed times and track durations that occur, and their completion
\* percentages, computed once.
ElapsedTimes ==
    {(a - b) * Second : a \in Timestamps \cup PairTimestamps,
                        b \in Timestamps \cup PairTimestamps}
TrackDurations == {ParseDuration(str).d : str \in DurationStrings}
completionPercentages ==
    [p \in ElapsedTimes \X TrackDurations |-> completionPercentage(p[1], p[2])]

\* min(percentage, 100) < float64(threshold), for an integer threshold.
\* Go's min returns NaN when an operand is NaN, and every comparison with
\* NaN is false.
belowThreshold(pct, threshold) ==
    CASE pct.kind = "NaN" -> FALSE
      [] pct.kind = "Inf" -> IF pct.neg THEN TRUE ELSE 100 < threshold
      [] pct.kind = "zero" -> 0 < threshold
      [] pct.kind = "finite" ->
            IF pct.neg
            THEN \/ threshold >= 0
                 \/ F64Floor(pct.abs) > -threshold
                 \/ F64Floor(pct.abs) = -threshold /\ ~F64IsInteger(pct.abs)
            ELSE IF F64Floor(pct.abs) >= 100 THEN 100 < threshold
                 ELSE F64Floor(pct.abs) < threshold

\* currentScrobble.timestamp.Sub(previousScrobble.timestamp)
elapsedBetween(previous, current) == (current.timestamp - previous.timestamp) * Second

detectDuplicateScrobble(DuplicateThreshold, previous, current) ==
    /\ current.artist = previous.artist
    /\ current.track = previous.track
    /\ current.timestamp # previous.timestamp
    /\ belowThreshold(
           completionPercentages[elapsedBetween(previous, current), current.trackDuration],
           DuplicateThreshold)

detectIncompleteScrobble(CompleteThreshold, previous, current) ==
    belowThreshold(
        completionPercentages[elapsedBetween(previous, current), current.trackDuration],
        CompleteThreshold)

\* The branch processPreviousAndCurrentScrobbles takes for a pair whose
\* current scrobble has its duration: the duplicate check first, the
\* incomplete check only after it and only when CompleteThreshold > 0.
classification(c, previous, current) ==
    IF detectDuplicateScrobble(c.DuplicateThreshold, previous, current)
    THEN "duplicate"
    ELSE IF c.CompleteThreshold > 0
            /\ detectIncompleteScrobble(c.CompleteThreshold, previous, current)
         THEN "incomplete"
         ELSE "none"

(***************************************************************************)
(* The scraped rows and generateScrobble.                                  *)
(***************************************************************************)
\* Faulty variant of Reverse: the order is kept.
ReverseKeepsOrder(seq) == seq

\* slices.Reverse
Reverse(seq) == [i \in 1..Len(seq) |-> seq[Len(seq) + 1 - i]]

\* strconv.ParseInt on the timestamp strings of the model.
ParseInt(str) == CHOOSE n \in Timestamps \cup PairTimestamps : ToString(n) = str

\* One .chartlist-row of a library page: the values generateScrobble reads.
Row(song, timestamp) ==
    [artist |-> song[1], track |-> song[2], timestamp |-> ToString(timestamp),
     href |-> "/music/" \o song[1] \o "/_/" \o song[2]]

Rows == {Row(song, t) : song \in Songs, t \in Timestamps}

RECURSIVE SeqsUpTo(_, _)
SeqsUpTo(S, n) ==
    IF n = 0 THEN {<<>>}
    ELSE LET shorter == SeqsUpTo(S, n - 1)
         IN shorter \cup {Append(q, x) : q \in shorter, x \in S}

\* The pages the site can show, newest row first, by the most rows on them.
RawPages ==
    [n \in 0..(MaxScrobbles + MaxWalkScrobbles) |->
        {rows \in SeqsUpTo(Rows, n) :
            \A i \in 1..Len(rows) : \A j \in 1..Len(rows) :
                i < j => ParseInt(rows[i].timestamp) >= ParseInt(rows[j].timestamp)}]

generateScrobble(row) ==
    [artist |-> row.artist,
     track |-> row.track,
     timestamp |-> ParseInt(row.timestamp),
     timestampString |-> row.timestamp,
     trackDuration |-> 0,
     url |-> "https://www.last.fm" \o row.href]

\* getScrobbles, once the rows are read: one scrobble per row, reversed.
scrobblesOfRows(rows) == Reverse([i \in 1..Len(rows) |-> generateScrobble(rows[i])])

(***************************************************************************)
(* The cache, as getTrackDuration uses it: a mapping from key to string.   *)
(***************************************************************************)
\* "mbquery:" and the SHA-256 of the query, taken to be collision-free.
cacheKey(artist, track) == <<"mbquery", artist, track>>

\* Faulty variant of cacheHas: every Get is a miss.
cacheHasNever(kv, key) == FALSE

cacheHas(kv, key) == key \in DOMAIN kv

\* Faulty variant of cacheSet: the value is not stored.
cacheSetNothing(kv, key, value) == kv

cacheSet(kv, key, value) ==
    [k \in DOMAIN kv \cup {key} |-> IF k = key THEN value ELSE kv[k]]

cacheDelete(kv, key) == [k \in DOMAIN kv \ {key} |-> kv[k]]

(***************************************************************************)
(* The answers of the collaborators of one resolution.                     *)
(***************************************************************************)
\* Recording lengths, in milliseconds, of a MusicBrainz search response.
SearchResponses == {<<>>, <<0>>, <<240000>>, <<240000, 50000>>}
\* Failed calls before the search answers.
SearchErrorCounts == {0, SearchMaxTries - 1}

\* getTrackDurationFromMusicBrainz on a response that came without error.
durationOfRecordings(recordings) ==
    IF Len(recordings) = 0 THEN 0 ELSE recordings[1] * Millisecond

\* Faulty variant of searchOutcomes: the first error of the search is final.
searchOutcomesGivingUp ==
    {[calls |-> 1, failed |-> 1, err |-> TRUE, d |-> 0]}
    \cup {[calls |-> 1, failed |-> 0, err |-> FALSE, d |-> durationOfRecordings(r)] :
            r \in SearchResponses}

\* Faulty variant of searchOutcomes: an answer without a usable duration is
\* retried like an error.
searchOutcomesRetryingEmpty ==
    {[calls |-> SearchMaxTries, failed |-> SearchMaxTries, err |-> TRUE, d |-> 0]}
    \cup {[calls |-> IF durationOfRecordings(r) = 0 THEN SearchMaxTries ELSE n + 1,
           failed |-> n, err |-> FALSE, d |-> durationOfRecordings(r)] :
            n \in SearchErrorCounts, r \in SearchResponses}

\* backoff.Retry around getTrackDurationFromMusicBrainz: the search is
\* called again after an error, SearchMaxTries times at most; an answer
\* without error ends the loop.
searchOutcomes ==
    {[calls |-> SearchMaxTries, failed |-> SearchMaxTries, err |-> TRUE, d |-> 0]}
    \cup {[calls |-> n + 1, failed |-> n, err |-> FALSE,
           d |-> durationOfRecordings(r)] :
            n \in SearchErrorCounts, r \in SearchResponses}

\* getTrackDurationFromLastFM: no "Length" on the page (0, nil), a browser
\* or parse error (0, err), or the length the page shows.
lastFMOutcomes ==
    {[d |-> 0, err |-> FALSE], [d |-> 0, err |-> TRUE],
     [d |-> 4 * 60 * Second, err |-> FALSE]}

(***************************************************************************)
(* getTrackDuration.  An outcome is the scrobble with the duration the     *)
(* call left in it, the error returned, the maps and counters as the call  *)
(* left them, and the calls it made to its collaborators.                  *)
(***************************************************************************)
\* searchErrors counts the searches that returned an error; searchAnswer and
\* lookupAnswer hold the duration a search or a Last.fm lookup returned.
NoCalls == [gets |-> 0, sets |-> 0, setFailed |-> FALSE,
            deletes |-> 0, deleteFailed |-> FALSE,
            searches |-> 0, searchErrors |-> 0, searchAnswer |-> <<>>,
            lookups |-> 0, lookupAnswer |-> <<>>]

\* Faulty variant of userTrackDuration: track-durations.yaml is not consulted.
userTrackDurationIgnored(utd, artist, track) == ""

\* userTrackDurations[s.artist][s.track], "" when there is no entry.
userTrackDuration(utd, artist, track) ==
    IF <<artist, track>> \in DOMAIN utd THEN utd[<<artist, track>>] ELSE ""

\* Faulty variant of isUnknownTrack: the map is not consulted.
isUnknownTrackNever(unknown, artist, track) == FALSE

\* The pair is a key of c.unknownTrackDurations.
isUnknownTrack(unknown, artist, track) == <<artist, track>> \in unknown

addToUnknownTrackDurations(unknown, stats, artist, track) ==
    IF ~isUnknownTrack(unknown, artist, track)
    THEN [unknown |-> unknown \cup {<<artist, track>>},
          stats |-> [stats EXCEPT !.unknownTrackDurationsCount = @ + 1],
          err |-> "savedToUnknown"]
    ELSE [unknown |-> unknown, stats |-> stats, err |-> "ErrUnknownTrackAlreadyInMap"]

\* Faulty variant of isNegativeEntry: a cached zero passes for a duration.
isNegativeEntryBelowZero(d) == d < 0

\* The cached duration is a negative entry.
isNegativeEntry(d) == d <= 0

\* Faulty variant of needsFallback: the Last.fm page is tried after every
\* search answer.
needsFallbackAlways(d) == TRUE

\* The search left nothing usable, so the Last.fm page is tried.
needsFallback(d) == d = 0

\* The branch after a cache miss.
resolveOnMiss(unknown, kv, stats, s, calls) ==
    LET missed == [stats EXCEPT !.cacheMisses = @ + 1]
        afterSearch(found, made) ==
            IF found <= 0
            THEN LET a == addToUnknownTrackDurations(unknown, missed, s.artist, s.track)
                 IN {[s |-> s, err |-> a.err, path |-> "miss", unknown |-> a.unknown,
                      kv |-> kv, stats |-> a.stats, calls |-> made]}
            ELSE {[s |-> [s EXCEPT !.trackDuration = found], err |-> "nil",
                   path |-> "miss", unknown |-> unknown,
                   kv |-> IF setOk
                          THEN cacheSet(kv, cacheKey(s.artist, s.track), DurationString(found))
                          ELSE kv,
                   stats |-> missed,
                   calls |-> [made EXCEPT !.sets = 1, !.setFailed = ~setOk]] :
                     setOk \in BOOLEAN}
        searched(search) ==
            [calls EXCEPT !.searches = search.calls,
                          !.searchErrors = search.failed,
                          !.searchAnswer = IF search.err THEN <<>> ELSE <<search.d>>]
    IN UNION {
         IF search.err
         THEN {[s |-> s, err |-> "musicBrainz", path |-> "miss", unknown |-> unknown,
                kv |-> kv, stats |-> missed, calls |-> searched(search)]}
         ELSE IF needsFallback(search.d)
              THEN UNION {afterSearch(page.d,
                                      [searched(search) EXCEPT
                                            !.lookups = 1,
                                            !.lookupAnswer = <<page.d>>]) :
                            page \in lastFMOutcomes}
              ELSE afterSearch(search.d, searched(search)) :
         search \in searchOutcomes}

\* The branch after a cache hit.
resolveOnHit(unknown, kv, stats, s, calls) ==
    LET hit == [stats EXCEPT !.cacheHits = @ + 1]
        parsed == ParseDuration(kv[cacheKey(s.artist, s.track)])
        withDuration == [s EXCEPT !.trackDuration = parsed.d]
    IN IF parsed.err
       THEN {[s |-> withDuration, err |-> "parseCached", path |-> "hit",
              unknown |-> unknown, kv |-> kv, stats |-> hit, calls |-> calls]}
       ELSE IF isNegativeEntry(parsed.d)
            THEN {LET a == addToUnknownTrackDurations(unknown, hit, s.artist, s.track)
                  IN [s |-> withDuration, err |-> a.err, path |-> "hit",
                      unknown |-> a.unknown,
                      kv |-> IF deleteOk
                             THEN cacheDelete(kv, cacheKey(s.artist, s.track))
                             ELSE kv,
                      stats |-> a.stats,
                      calls |-> [calls EXCEPT !.deletes = 1, !.deleteFailed = ~deleteOk]] :
                    deleteOk \in BOOLEAN}
            ELSE {[s |-> withDuration, err |-> "nil", path |-> "hit",
                   unknown |-> unknown, kv |-> kv, stats |-> hit, calls |-> calls]}

getTrackDuration(utd, unknown, kv, stats, s) ==
    IF userTrackDuration(utd, s.artist, s.track) # ""
    THEN {[s |-> [s EXCEPT !.trackDuration =
                      ParseDuration(userTrackDuration(utd, s.artist, s.track)).d],
           err |-> "nil", path |-> "override", unknown |-> unknown, kv |-> kv,
           stats |-> stats, calls |-> NoCalls]}
    ELSE IF isUnknownTrack(unknown, s.artist, s.track)
    THEN {[s |-> s, err |-> "ErrUnknownTrackAlreadyInMap", path |-> "unknown",
           unknown |-> unknown, kv |-> kv, stats |-> stats, calls |-> NoCalls]}
    ELSE LET got == [NoCalls EXCEPT !.gets = 1]
         IN \* c.cache.Get fails with an error that is not ErrCacheMiss
            {[s |-> s, err |-> "cacheGet", path |-> "getError", unknown |-> unknown,
              kv |-> kv, stats |-> stats, calls |-> got]}
            \cup (IF cacheHas(kv, cacheKey(s.artist, s.track))
                  THEN resolveOnHit(unknown, kv, stats, s, got)
                  ELSE resolveOnMiss(unknown, kv, stats, s, got))

\* Faulty variant of deleteOutcomes: a failing delete is tried once more.
deleteOutcomesOneMoreTry ==
    {[calls |-> n, err |-> FALSE] : n \in 1..DeleteMaxTries}
    \cup {[calls |-> DeleteMaxTries + 1, err |-> TRUE]}

(***************************************************************************)
(* processPreviousAndCurrentScrobbles.                                     *)
(***************************************************************************)
\* deleteScrobbleWithRetries: deleteScrobble is called again after an
\* error, DeleteMaxTries times at most.
deleteOutcomes ==
    {[calls |-> n, err |-> FALSE] : n \in 1..DeleteMaxTries}
    \cup {[calls |-> DeleteMaxTries, err |-> TRUE]}

\* Faulty variant of deleteRequest: the current scrobble is the target for
\* either classification.
deleteRequestOfCurrent(kind, previous, current) ==
    [timestamp |-> current.timestampString,
     deleteCurrentScrobble |-> kind # "duplicate"]

\* The arguments of deleteScrobble for a classified pair.
deleteRequest(kind, previous, current) ==
    IF kind = "duplicate"
    THEN [timestamp |-> previous.timestampString, deleteCurrentScrobble |-> FALSE]
    ELSE [timestamp |-> current.timestampString, deleteCurrentScrobble |-> TRUE]

\* The scrobble appended to c.deletedScrobbles for a classified pair.
recordedScrobble(kind, previous, current) == current

\* Faulty variant of returnedScrobble: the current scrobble is returned
\* whatever happened.
returnedScrobbleAlwaysCurrent(kind, CanDelete, deleteErr, previous, current) == current

\* The scrobble returned, which the caller keeps as previousScrobble.
returnedScrobble(kind, CanDelete, deleteErr, previous, current) ==
    CASE kind = "duplicate" -> current
      [] kind = "incomplete" -> IF CanDelete /\ deleteErr THEN current ELSE previous
      [] OTHER -> current

NoResolution == [called |-> FALSE]
NoFetch == [tries |-> 0, err |-> FALSE]
NoDryRun == [on |-> FALSE]
NoComparison == [compared |-> FALSE]

resolutionOf(r, s) ==
    [called |-> TRUE, artist |-> s.artist, track |-> s.track,
     timestampString |-> s.timestampString, path |-> r.path,
     err |-> r.err, trackDuration |-> r.s.trackDuration, calls |-> r.calls]

\* Faulty variant of compareAndDelete: the delete is requested whatever
\* c.CanDelete says.
compareAndDeleteAlways(c, r, deleted, previous, current) ==
    LET kind == classification(c, previous, current)
        compared(deleteErr) ==
            [compared |-> TRUE, previous |-> previous, current |-> current,
             kind |-> kind, deleteErr |-> deleteErr]
        outcome(del) ==
            [previous |-> <<returnedScrobble(kind, TRUE, del.err, previous, current)>>,
             deleted |-> Append(deleted, recordedScrobble(kind, previous, current)),
             stats |-> IF del.err
                       THEN [r.stats EXCEPT !.scrobbleDeleteFails = @ + 1]
                       ELSE r.stats,
             unknown |-> r.unknown, kv |-> r.kv,
             resolution |-> resolutionOf(r, current),
             comparison |-> compared(del.err),
             requests |-> [i \in 1..del.calls |-> deleteRequest(kind, previous, current)]]
    IN IF kind = "none"
       THEN {[previous |-> <<current>>, deleted |-> deleted, stats |-> r.stats,
              unknown |-> r.unknown, kv |-> r.kv,
              resolution |-> resolutionOf(r, current),
              comparison |-> compared(FALSE), requests |-> <<>>]}
       ELSE {outcome(del) : del \in deleteOutcomes}

\* Lines 550-587: the pair is compared and, when classified, recorded and
\* (if CanDelete) deleted.
compareAndDelete(c, r, deleted, previous, current) ==
    LET kind == classification(c, previous, current)
        compared(deleteErr) ==
            [compared |-> TRUE, previous |-> previous, current |-> current,
             kind |-> kind, deleteErr |-> deleteErr]
        outcome(del) ==
            [previous |-> <<returnedScrobble(kind, c.CanDelete, del.err, previous, current)>>,
             deleted |-> Append(deleted, recordedScrobble(kind, previous, current)),
             stats |-> IF del.err
                       THEN [r.stats EXCEPT !.scrobbleDeleteFails = @ + 1]
                       ELSE r.stats,
             unknown |-> r.unknown, kv |-> r.kv,
             resolution |-> resolutionOf(r, current),
             comparison |-> compared(del.err),
             requests |-> [i \in 1..del.calls |-> deleteRequest(kind, previous, current)]]
    IN IF kind = "none"
       THEN {[previous |-> <<current>>, deleted |-> deleted, stats |-> r.stats,
              unknown |-> r.unknown, kv |-> r.kv,
              resolution |-> resolutionOf(r, current),
              comparison |-> compared(FALSE), requests |-> <<>>]}
       ELSE IF c.CanDelete
            THEN {outcome(del) : del \in deleteOutcomes}
            ELSE {outcome([calls |-> 0, err |-> FALSE])}

\* Faulty variant of processPreviousAndCurrentScrobbles: a scrobble whose
\* resolution failed is not counted as skipped.
processWithoutSkipCount(c, utd, unknown, kv, stats, deleted, previous, s) ==
    UNION {
        IF r.err # "nil"
        THEN {[previous |-> <<r.s>>, deleted |-> deleted, stats |-> r.stats,
               unknown |-> r.unknown, kv |-> r.kv,
               resolution |-> resolutionOf(r, s),
               comparison |-> NoComparison, requests |-> <<>>]}
        ELSE IF previous = <<>>
             THEN {[previous |-> <<r.s>>, deleted |-> deleted, stats |-> r.stats,
                    unknown |-> r.unknown, kv |-> r.kv,
                    resolution |-> resolutionOf(r, s),
                    comparison |-> NoComparison, requests |-> <<>>]}
             ELSE compareAndDelete(c, r, deleted, previous[1], r.s) :
        r \in getTrackDuration(utd, unknown, kv, stats, s)}

processPreviousAndCurrentScrobbles(c, utd, unknown, kv, stats, deleted, previous, s) ==
    UNION {
        IF r.err # "nil"
        THEN {[previous |-> <<r.s>>, deleted |-> deleted,
               stats |-> [r.stats EXCEPT !.skippedScrobbleUnknownDuration = @ + 1],
               unknown |-> r.unknown, kv |-> r.kv,
               resolution |-> resolutionOf(r, s),
               comparison |-> NoComparison, requests |-> <<>>]}
        ELSE IF previous = <<>>
             THEN {[previous |-> <<r.s>>, deleted |-> deleted, stats |-> r.stats,
                    unknown |-> r.unknown, kv |-> r.kv,
                    resolution |-> resolutionOf(r, s),
                    comparison |-> NoComparison, requests |-> <<>>]}
             ELSE compareAndDelete(c, r, deleted, previous[1], r.s) :
        r \in getTrackDuration(utd, unknown, kv, stats, s)}

(***************************************************************************)
(* The state of a run.                                                     *)
(***************************************************************************)
VARIABLES
    config,                 \* DuplicateThreshold, CompleteThreshold, CanDelete
    userTrackDurations,     \* track-durations.yaml, as loaded at the start
    unknownTrackDurations,  \* c.unknownTrackDurations: the pairs that are keys
    cache,                  \* c.cache: key -> duration string
    runStats,               \* c.runStats
    deletedScrobbles,       \* c.deletedScrobbles
    startPage,              \* the page getStartPage returned
    rowsLeft,               \* the rows of the library not yet on a fetched page
    currentPage,            \* the loop variable of the page walk
    scrobbles,              \* the scrobbles of the page not yet processed
    previousScrobble,       \* <<>> for nil, <<s>> for a pointer to s; outside
                            \* the loop body, the value the last page left
    pc,                     \* where the page walk stands
    resolution,             \* what the last getTrackDuration call did
    comparison,             \* the pair the last step compared, and the result
    lastComparison,         \* the pair compared most recently in the run
    deleteRequests,         \* the deleteScrobble calls of the last step
    pageFetch,              \* the getScrobbles calls of the last step
    dryRun,                 \* the same history scanned with CanDelete off
    handler,                \* the goroutine of handleInterrupts
    finishCalls,            \* how often each step of finishRun has run
    telegramBot,            \* c.telegramBot != nil
    durationsFile,          \* the lines of track-durations.yaml in DataDir
    csvFile,                \* the deleted-scrobbles CSV file of this run
    data,                   \* File.data: key -> value
    mu,                     \* File.mu: "free" or the goroutine that holds it
    diskFile,               \* the lines of the file at File.path
    tmpFile,                \* the file at File.path + ".tmp"
    fileHandle,             \* File.file: "open" or "closed"
    filePc,                 \* where the caller of the cache and the flusher stand
    callerOp,               \* the call the caller is in, and what Get returned
    fileLog,                \* what has happened to the cache so far
    runLog,                 \* what Run has done outside the process so far
    walkLog                 \* the pages fetched and the scrobbles handed on

vars == <<config, userTrackDurations, unknownTrackDurations, cache, runStats,
          deletedScrobbles, startPage, rowsLeft, currentPage, scrobbles, previousScrobble,
          pc, resolution, comparison, lastComparison, deleteRequests, pageFetch,
          dryRun, handler, finishCalls, telegramBot, durationsFile, csvFile,
          data, mu, diskFile, tmpFile, fileHandle, filePc, callerOp, fileLog,
          runLog, walkLog>>

\* The variables of the end of the run, and their values while the scan
\* alone is looked at.
finishVars == <<handler, finishCalls, telegramBot, durationsFile, csvFile>>

NoCSV == [created |-> FALSE]
\* signal: where Run stood when the signal arrived, "" before it.
NoFinishCalls ==
    [signal |-> "", logStats |-> 0, writeUnknown |-> 0, export |-> 0, close |-> 0]

FinishIdle ==
    /\ handler = "waiting"
    /\ finishCalls = NoFinishCalls
    /\ telegramBot = FALSE
    /\ durationsFile = <<>>
    /\ csvFile = NoCSV

\* The variables of the file cache, and their values while the cache is an
\* abstract key-value store.
fileVars == <<data, mu, diskFile, tmpFile, fileHandle, filePc, callerOp, fileLog>>

NoTmp == [exists |-> FALSE, lines |-> <<>>]
NoOp == [op |-> "none"]
\* sets: the keys Set has been called for, with the last value;
\* closeFlush: how the Flush of Close ended; ticked: the ticker has fired.
NoFileLog == [sets |-> <<>>, closeFlush |-> "none", ticked |-> FALSE]

FileIdle ==
    /\ data = <<>>
    /\ mu = "free"
    /\ diskFile = <<>>
    /\ tmpFile = NoTmp
    /\ fileHandle = "open"
    /\ filePc = [caller |-> "ready", flusher |-> "idle"]
    /\ callerOp = NoOp
    /\ fileLog = NoFileLog

\* What lies outside the scan.
logVars == <<runLog, walkLog>>

NoWalkLog == [pages |-> <<>>, fed |-> <<>>]

LogIdle == runLog = <<>> /\ walkLog = NoWalkLog

beyondScan == <<finishVars, fileVars, logVars>>

BeyondScanIdle == FinishIdle /\ FileIdle /\ LogIdle

EndPage == 1

\* The configurations of a run: thresholds that checkConfig accepts.
Configs ==
    {[DuplicateThreshold |-> 90, CompleteThreshold |-> 50, CanDelete |-> TRUE],
     [DuplicateThreshold |-> 90, CompleteThreshold |-> 50, CanDelete |-> FALSE],
     [DuplicateThreshold |-> 90, CompleteThreshold |-> 0, CanDelete |-> TRUE]}

\* What a run finds when it starts: track-durations.yaml and the cache.
Setups ==
    {[utd |-> <<>>, kv |-> <<>>],
     [utd |-> <<"A", "X">> :> "4m0s", kv |-> cacheKey("A", "X") :> "0s"],
     [utd |-> <<"A", "X">> :> BadDurationString, kv |-> cacheKey("A", "Y") :> "4m0s"],
     [utd |-> <<"A", "X">> :> "",
      kv |-> cacheKey("A", "X") :> "0s" @@ cacheKey("A", "Y") :> "-1s"],
     [utd |-> <<>>,
      kv |-> cacheKey("A", "X") :> "4m0s" @@ cacheKey("A", "Y") :> BadDurationString]}

NoStats ==
    [cacheHits |-> 0, cacheMisses |-> 0, processedScrobbles |-> 0,
     unknownTrackDurationsCount |-> 0, skippedScrobbleUnknownDuration |-> 0,
     scrobbleDeleteFails |-> 0]

\* A run whose resolutions are settled beforehand: ("A", "X") has an
\* override, ("A", "Y") a cache entry that does not parse.
WalkSetup ==
    [utd |-> <<"A", "X">> :> "4m0s", kv |-> cacheKey("A", "Y") :> BadDurationString]

\* Run, up to the call of processScrobblesFromStartToEndPage, for a library
\* of the given size.
RunStarts(setups, rows) ==
    /\ config \in Configs
    /\ \E setup \in setups :
        userTrackDurations = setup.utd /\ cache = setup.kv
    /\ unknownTrackDurations = {}
    /\ runStats = NoStats
    /\ deletedScrobbles = <<>>
    /\ startPage \in 1..MaxStartPage
    /\ rowsLeft = rows
    /\ currentPage = startPage
    /\ scrobbles = <<>>
    /\ previousScrobble = <<>>
    /\ pc = "fetch"
    /\ resolution = NoResolution
    /\ comparison = NoComparison
    /\ lastComparison = NoComparison
    /\ deleteRequests = <<>>
    /\ pageFetch = NoFetch
    /\ dryRun = NoDryRun
    /\ BeyondScanIdle

\* The page walk after the last scrobble of currentPage: the next page, or
\* the end of the loop.
AfterPage ==
    IF currentPage - 1 >= EndPage
    THEN pc' = "fetch" /\ currentPage' = currentPage - 1
    ELSE pc' = "scanned" /\ currentPage' = currentPage

\* getScrobbles returns a page within PageMaxTries calls; the loop body
\* starts with previousScrobble nil.
FetchPageStep ==
    /\ pc = "fetch"
    /\ \E rows \in RawPages[rowsLeft] :
        /\ scrobbles' = scrobblesOfRows(rows)
        /\ rowsLeft' = rowsLeft - Len(rows)
        /\ IF rows = <<>> THEN AfterPage
           ELSE pc' = "process" /\ currentPage' = currentPage
    /\ previousScrobble' = <<>>
    /\ resolution' = NoResolution
    /\ comparison' = NoComparison
    /\ deleteRequests' = <<>>
    /\ \E tries \in {1, PageMaxTries} : pageFetch' = [tries |-> tries, err |-> FALSE]
    /\ UNCHANGED <<config, userTrackDurations, unknownTrackDurations, cache,
                   runStats, deletedScrobbles, startPage, lastComparison, dryRun>>

\* The fetch of a page in a run that nothing outside the scan touches.
FetchPage == FetchPageStep /\ UNCHANGED beyondScan

\* Faulty variant of FetchPageFails: the failed page is passed over and the
\* walk goes on to the next page.
FetchPageFailsAndGoesOn ==
    /\ pc = "fetch"
    /\ AfterPage
    /\ scrobbles' = <<>>
    /\ previousScrobble' = <<>>
    /\ resolution' = NoResolution
    /\ comparison' = NoComparison
    /\ deleteRequests' = <<>>
    /\ pageFetch' = [tries |-> PageMaxTries, err |-> TRUE]
    /\ UNCHANGED <<config, userTrackDurations, unknownTrackDurations, cache,
                   runStats, deletedScrobbles, startPage, rowsLeft,
                   lastComparison, dryRun>>
    /\ UNCHANGED beyondScan

\* Every one of the PageMaxTries calls of getScrobbles fails: the error is
\* returned.
FetchPageFails ==
    /\ pc = "fetch"
    /\ pc' = "aborted"
    /\ resolution' = NoResolution
    /\ comparison' = NoComparison
    /\ deleteRequests' = <<>>
    /\ pageFetch' = [tries |-> PageMaxTries, err |-> TRUE]
    /\ UNCHANGED <<config, userTrackDurations, unknownTrackDurations, cache,
                   runStats, deletedScrobbles, startPage, rowsLeft, currentPage,
                   scrobbles, previousScrobble, lastComparison, dryRun>>
    /\ UNCHANGED beyondScan

\* One iteration of the loop over the scrobbles of the page.
ProcessScrobbleStep ==
    /\ pc = "process"
    /\ scrobbles # <<>>
    /\ \E o \in processPreviousAndCurrentScrobbles(
                    config, userTrackDurations, unknownTrackDurations, cache,
                    runStats, deletedScrobbles, previousScrobble, Head(scrobbles)) :
        /\ previousScrobble' = o.previous
        /\ deletedScrobbles' = o.deleted
        /\ runStats' = [o.stats EXCEPT !.processedScrobbles = @ + 1]
        /\ unknownTrackDurations' = o.unknown
        /\ cache' = o.kv
        /\ resolution' = o.resolution
        /\ comparison' = o.comparison
        /\ lastComparison' = IF o.comparison.compared THEN o.comparison
                              ELSE lastComparison
        /\ deleteRequests' = o.requests
    /\ scrobbles' = Tail(scrobbles)
    /\ IF Tail(scrobbles) = <<>> THEN AfterPage
       ELSE pc' = "process" /\ currentPage' = currentPage
    /\ pageFetch' = NoFetch
    /\ UNCHANGED <<config, userTrackDurations, startPage, rowsLeft, dryRun>>

\* The iteration in a run that nothing outside the scan touches.
ProcessScrobble == ProcessScrobbleStep /\ UNCHANGED beyondScan

Init == RunStarts(Setups, MaxScrobbles)

WalkInit == RunStarts({WalkSetup}, MaxWalkScrobbles)

Next == FetchPage \/ FetchPageFails \/ ProcessScrobble

Spec == Init /\ [][Next]_vars

\* The same run over a longer history.
SpecWalk == WalkInit /\ [][Next]_vars

(***************************************************************************)
(* The classifier on its own: one pair and one configuration, drawn from   *)
(* the domains below, handed to the branch of                              *)
(* processPreviousAndCurrentScrobbles that compares.                       *)
(***************************************************************************)
PairSongs == Artists \X Tracks
PairDurations == {50 * Second, 4 * 60 * Second}
PairThresholds == {0, 58, 90, 100}

PairScrobble(song, timestamp, trackDuration) ==
    [generateScrobble(Row(song, timestamp)) EXCEPT !.trackDuration = trackDuration]

PairInit ==
    /\ config \in [DuplicateThreshold : PairThresholds,
                    CompleteThreshold : {0, 58}, CanDelete : {FALSE}]
    /\ userTrackDurations = <<>>
    /\ cache = <<>>
    /\ unknownTrackDurations = {}
    /\ runStats = NoStats
    /\ deletedScrobbles = <<>>
    /\ startPage = 1
    /\ rowsLeft = 0
    /\ currentPage = 1
    /\ \E song \in PairSongs, t \in PairTimestamps :
        previousScrobble = <<PairScrobble(song, t, 4 * 60 * Second)>>
    /\ \E song \in PairSongs, t \in PairTimestamps, d \in PairDurations :
        scrobbles = <<PairScrobble(song, t, d)>>
    /\ pc = "pair"
    /\ resolution = NoResolution
    /\ comparison = NoComparison
    /\ lastComparison = NoComparison
    /\ deleteRequests = <<>>
    /\ pageFetch = NoFetch
    /\ dryRun = NoDryRun
    /\ BeyondScanIdle

\* Lines 550-587 on the pair, with CanDelete off.
ClassifyPair ==
    /\ pc = "pair"
    /\ \E o \in compareAndDelete(
                    config,
                    [s |-> Head(scrobbles), err |-> "nil", path |-> "override",
                     unknown |-> unknownTrackDurations, kv |-> cache,
                     stats |-> runStats, calls |-> NoCalls],
                    deletedScrobbles, previousScrobble[1], Head(scrobbles)) :
        /\ previousScrobble' = o.previous
        /\ deletedScrobbles' = o.deleted
        /\ comparison' = o.comparison
        /\ lastComparison' = o.comparison
        /\ deleteRequests' = o.requests
    /\ scrobbles' = <<>>
    /\ pc' = "classified"
    /\ UNCHANGED <<config, userTrackDurations, unknownTrackDurations, cache,
                   runStats, startPage, rowsLeft, currentPage, resolution,
                   pageFetch, dryRun>>
    /\ UNCHANGED beyondScan

PairNext == ClassifyPair

SpecPair == PairInit /\ [][PairNext]_vars

(***************************************************************************)
(* Properties of the classifier (SpecPair).                                *)
(***************************************************************************)
\* The pair of the last comparison, in the claims' terms.
SamePlay(previous, current) ==
    /\ previous.artist = current.artist
    /\ previous.track = current.track
    /\ previous.timestamp # current.timestamp

\* 100 * (current.timestamp - previous.timestamp) < threshold * D, exactly.
ExactlyBelow(threshold, previous, current) ==
    100 * elapsedBetween(previous, current) < threshold * current.trackDuration

\* C1: for a pair whose current scrobble has a track duration D > 0 and a
\* duplicate threshold T in 0..100, the pair is detected as a duplicate
\* exactly when artist and track agree, the timestamps differ and
\* 100 * (current.timestamp - previous.timestamp) < T * D.
C1_DuplicateExactlyBelowThreshold ==
    (comparison.compared /\ comparison.current.trackDuration > 0) =>
        ((comparison.kind = "duplicate") <=>
            /\ SamePlay(comparison.previous, comparison.current)
            /\ ExactlyBelow(config.DuplicateThreshold,
                            comparison.previous, comparison.current))

\* A pair at the threshold: 29 s of a 50 s track is 58 %, the threshold is 58,
\* and the pair is detected as a duplicate.
C1_DuplicateAtThreshold ==
    /\ comparison.compared
    /\ comparison.kind = "duplicate"
    /\ config.DuplicateThreshold = 58
    /\ comparison.current.trackDuration = 50 * Second
    /\ comparison.current.timestamp - comparison.previous.timestamp = 29

\* C2: a pair whose current scrobble has a track duration D > 0 is
\* classified incomplete exactly when it is not classified duplicate, the
\* complete threshold is above 0 and
\* 100 * (current.timestamp - previous.timestamp) < completeThreshold * D,
\* whatever the artists and tracks; with a complete threshold of 0 no pair
\* is incomplete.
C2_IncompleteExactlyBelowThreshold ==
    (comparison.compared /\ comparison.current.trackDuration > 0) =>
        ((comparison.kind = "incomplete") <=>
            /\ comparison.kind # "duplicate"
            /\ config.CompleteThreshold > 0
            /\ ExactlyBelow(config.CompleteThreshold,
                            comparison.previous, comparison.current))

\* A pair of different tracks at the threshold: 29 s of a 50 s track with a
\* complete threshold of 58 is classified incomplete.
C2_IncompleteAtThreshold ==
    /\ comparison.compared
    /\ comparison.kind = "incomplete"
    /\ comparison.previous.track # comparison.current.track
    /\ config.CompleteThreshold = 58
    /\ comparison.current.trackDuration = 50 * Second
    /\ comparison.current.timestamp - comparison.previous.timestamp = 29

(***************************************************************************)
(* The same history scanned twice, step by step: by a run that deletes     *)
(* (the variables of the run) and by a run with CanDelete off (dryRun).    *)
(* Both runs are given the same pages and the same answers of the cache    *)
(* and of the lookups.                                                     *)
(***************************************************************************)
MaxModeScrobbles == 3

ModeSetups ==
    {[utd |-> <<"A", "X">> :> "50s" @@ <<"A", "Y">> :> "4m0s", kv |-> <<>>],
     [utd |-> <<"A", "X">> :> "4m0s", kv |-> cacheKey("A", "Y") :> "4m0s"],
     [utd |-> <<>>, kv |-> cacheKey("A", "X") :> "4m0s"]}

ModesInit ==
    /\ config = [DuplicateThreshold |-> 90, CompleteThreshold |-> 50, CanDelete |-> TRUE]
    /\ \E setup \in ModeSetups :
        /\ userTrackDurations = setup.utd
        /\ cache = setup.kv
        /\ dryRun = [on |-> TRUE, previous |-> <<>>, deleted |-> <<>>,
                     stats |-> NoStats, unknown |-> {}, kv |-> setup.kv]
    /\ unknownTrackDurations = {}
    /\ runStats = NoStats
    /\ deletedScrobbles = <<>>
    /\ startPage \in 1..MaxStartPage
    /\ rowsLeft = MaxModeScrobbles
    /\ currentPage = startPage
    /\ scrobbles = <<>>
    /\ previousScrobble = <<>>
    /\ pc = "fetch"
    /\ resolution = NoResolution
    /\ comparison = NoComparison
    /\ lastComparison = NoComparison
    /\ deleteRequests = <<>>
    /\ pageFetch = NoFetch
    /\ BeyondScanIdle

\* Both runs fetch the page; each starts it with previousScrobble nil.
FetchPageInBothModes ==
    /\ pc = "fetch"
    /\ \E rows \in RawPages[rowsLeft] :
        /\ scrobbles' = scrobblesOfRows(rows)
        /\ rowsLeft' = rowsLeft - Len(rows)
        /\ IF rows = <<>> THEN AfterPage
           ELSE pc' = "process" /\ currentPage' = currentPage
    /\ previousScrobble' = <<>>
    /\ dryRun' = [dryRun EXCEPT !.previous = <<>>]
    /\ resolution' = NoResolution
    /\ comparison' = NoComparison
    /\ deleteRequests' = <<>>
    /\ \E tries \in {1, PageMaxTries} : pageFetch' = [tries |-> tries, err |-> FALSE]
    /\ UNCHANGED <<config, userTrackDurations, unknownTrackDurations, cache,
                   runStats, deletedScrobbles, startPage, lastComparison>>
    /\ UNCHANGED beyondScan

\* Both runs process the next scrobble of the page, the resolution taking
\* the same path with the same answers in both.
ProcessScrobbleInBothModes ==
    /\ pc = "process"
    /\ scrobbles # <<>>
    /\ \E o \in processPreviousAndCurrentScrobbles(
                    config, userTrackDurations, unknownTrackDurations, cache,
                    runStats, deletedScrobbles, previousScrobble, Head(scrobbles)) :
        /\ previousScrobble' = o.previous
        /\ deletedScrobbles' = o.deleted
        /\ runStats' = [o.stats EXCEPT !.processedScrobbles = @ + 1]
        /\ unknownTrackDurations' = o.unknown
        /\ cache' = o.kv
        /\ resolution' = o.resolution
        /\ comparison' = o.comparison
        /\ lastComparison' = IF o.comparison.compared THEN o.comparison
                              ELSE lastComparison
        /\ deleteRequests' = o.requests
        /\ \E d \in processPreviousAndCurrentScrobbles(
                        [config EXCEPT !.CanDelete = FALSE], userTrackDurations,
                        dryRun.unknown, dryRun.kv, dryRun.stats, dryRun.deleted,
                        dryRun.previous, Head(scrobbles)) :
            /\ d.resolution = o.resolution
            /\ dryRun' = [on |-> TRUE, previous |-> d.previous, deleted |-> d.deleted,
                          stats |-> [d.stats EXCEPT !.processedScrobbles = @ + 1],
                          unknown |-> d.unknown, kv |-> d.kv]
    /\ scrobbles' = Tail(scrobbles)
    /\ IF Tail(scrobbles) = <<>> THEN AfterPage
       ELSE pc' = "process" /\ currentPage' = currentPage
    /\ pageFetch' = NoFetch
    /\ UNCHANGED <<config, userTrackDurations, startPage, rowsLeft>>
    /\ UNCHANGED beyondScan

ModesNext == FetchPageInBothModes \/ ProcessScrobbleInBothModes

SpecModes == ModesInit /\ [][ModesNext]_vars

(***************************************************************************)
(* track-durations.yaml.  The file is a sequence of lines: comments,       *)
(* artist keys, and under an artist its "track: duration" entries.         *)
(***************************************************************************)
\* The header writeUnknownTrackDurations puts before the YAML: four comment
\* lines and an empty one.
HeaderLines == 5
\* The most comment lines a file that the user has edited starts with.
MaxComments == 6

CommentLine == [kind |-> "comment", key |-> "", value |-> ""]
ArtistLine(artist) == [kind |-> "artist", key |-> artist, value |-> ""]
TrackLine(track, value) == [kind |-> "track", key |-> track, value |-> value]

Comments(n) == [i \in 1..n |-> CommentLine]

\* The order of the keys in the output of yaml.Marshal.
ArtistOrder == <<"A", "B">>
TrackOrder == <<"X", "Y">>

\* yaml.Marshal of a durationByTrackByArtist, given as the function from
\* its (artist, track) pairs to their values.
ArtistBlock(m, artist) ==
    LET has(track) == <<artist, track>> \in DOMAIN m
        tracks == SelectSeq(TrackOrder, has)
    IN IF tracks = <<>> THEN <<>>
       ELSE <<ArtistLine(artist)>>
            \o [i \in 1..Len(tracks) |-> TrackLine(tracks[i], m[<<artist, tracks[i]>>])]

RECURSIVE MarshalFrom(_, _)
MarshalFrom(m, i) ==
    IF i > Len(ArtistOrder) THEN <<>>
    ELSE ArtistBlock(m, ArtistOrder[i]) \o MarshalFrom(m, i + 1)

Marshal(m) == MarshalFrom(m, 1)

\* yaml.Unmarshal into a durationByTrackByArtist: an entry outside an
\* artist, an artist given twice and a track given twice under its artist
\* are errors.
RECURSIVE UnmarshalFrom(_, _, _, _, _)
UnmarshalFrom(lines, i, artist, seen, m) ==
    IF i > Len(lines) THEN [m |-> m, err |-> FALSE]
    ELSE LET l == lines[i]
         IN CASE l.kind = "comment" -> UnmarshalFrom(lines, i + 1, artist, seen, m)
              [] l.kind = "artist" ->
                    IF l.key \in seen THEN [m |-> <<>>, err |-> TRUE]
                    ELSE UnmarshalFrom(lines, i + 1, <<l.key>>, seen \cup {l.key}, m)
              [] l.kind = "track" ->
                    IF artist = <<>> \/ <<artist[1], l.key>> \in DOMAIN m
                    THEN [m |-> <<>>, err |-> TRUE]
                    ELSE UnmarshalFrom(lines, i + 1, artist, seen,
                                       m @@ (<<artist[1], l.key>> :> l.value))

Unmarshal(lines) == UnmarshalFrom(lines, 1, <<>>, {}, <<>>)

\* getUserTrackDurations on a file that can be read: an empty or missing
\* file gives the nil map.
getUserTrackDurations(file) ==
    IF file = <<>> THEN [m |-> <<>>, err |-> FALSE] ELSE Unmarshal(file)

\* file.Write on a file opened with O_RDWR|O_CREATE: the bytes replace the
\* start of the file, and what the file held beyond them stays.
WriteAtStart(file, bytes) ==
    bytes \o SubSeq(file, Len(bytes) + 1, Len(file))

\* Lines 703-708: the entries of the file are copied over the unknown
\* pairs, artist by artist.
mergeTrackDurations(unknown, user) ==
    [p \in unknown \cup DOMAIN user |-> IF p \in DOMAIN user THEN user[p] ELSE ""]

\* What can go wrong in writeUnknownTrackDurations besides the parse.
WriteFaults == {"none", "read", "permission", "open", "write"}

\* writeUnknownTrackDurations: the new file, the map it leaves in
\* c.unknownTrackDurations (its keys), and whether it returned an error.
writeUnknownTrackDurations(unknown, file, fault) ==
    LET user == getUserTrackDurations(file)
        merged == mergeTrackDurations(unknown, user.m)
        bytes == Comments(HeaderLines) \o Marshal(merged)
        failed == [err |-> TRUE, file |-> file, unknown |-> unknown, merged |-> <<>>]
    IN CASE fault = "read" -> {failed}
         [] user.err -> {failed}
         [] fault = "permission" ->
                {[err |-> FALSE, file |-> file, unknown |-> DOMAIN merged, merged |-> merged]}
         [] fault = "open" -> {[failed EXCEPT !.unknown = DOMAIN merged]}
         [] fault = "write" ->
                {[err |-> TRUE, file |-> WriteAtStart(file, SubSeq(bytes, 1, n)),
                  unknown |-> DOMAIN merged, merged |-> merged] :
                    n \in 0..(Len(bytes) - 1)}
         [] OTHER ->
                {[err |-> FALSE, file |-> WriteAtStart(file, bytes),
                  unknown |-> DOMAIN merged, merged |-> merged]}

(***************************************************************************)
(* The end of the run: finishRun, called by Run after the scan and by the  *)
(* goroutine of handleInterrupts when a signal arrives.                    *)
(***************************************************************************)
MaxFinishScrobbles == 3

\* time.Time.Format(time.RFC3339) of the timestamps of the model, in UTC.
FormatRFC3339(timestamp) ==
    CASE timestamp = 0 -> "1970-01-01T00:00:00Z"
      [] timestamp = 29 -> "1970-01-01T00:00:29Z"
      [] timestamp = 60 -> "1970-01-01T00:01:00Z"
      [] timestamp = 239 -> "1970-01-01T00:03:59Z"

\* The record exportScrobblesToCSV writes for a scrobble.
csvRecord(s) == <<s.artist, s.track, FormatRFC3339(s.timestamp), s.timestampString>>

\* Faulty variant of SortedByTimestamp: the list is left as it is.
LeftInDiscoveryOrder(list) == {list}

\* slices.SortFunc by timestamp: an order of the list that is sorted; the
\* sort is not stable.
SortedByTimestamp(list) ==
    {q \in {[i \in 1..Len(list) |-> list[f[i]]] : f \in Permutations(1..Len(list))} :
        \A i \in 1..Len(q), j \in 1..Len(q) :
            i < j => q[i].timestamp <= q[j].timestamp}

Goroutines == {"main", "handler"}

\* The goroutine stands before the step of finishRun; Run calls finishRun
\* when the scan has ended.
At(g, step) ==
    IF g = "main"
    THEN pc = (IF step = "logStats" THEN "scanned" ELSE step)
    ELSE handler = step

Goto(g, step) ==
    IF g = "main"
    THEN pc' = step /\ handler' = handler
    ELSE handler' = step /\ pc' = pc

\* The process is running: the handler has not called os.Exit and Run has
\* not returned.
Alive == handler # "exited" /\ pc \notin {"returned", "aborted"}

\* What no step of the end of the run changes.
finishRest ==
    <<config, userTrackDurations, cache, runStats, startPage, rowsLeft, currentPage,
      scrobbles, previousScrobble, resolution, comparison, lastComparison,
      deleteRequests, pageFetch, dryRun, telegramBot, fileVars, logVars>>

\* A signal arrives: the goroutine of handleInterrupts calls finishRun.
Interrupt ==
    /\ Alive
    /\ handler = "waiting"
    /\ handler' = "logStats"
    /\ finishCalls' = [finishCalls EXCEPT !.signal = pc]
    /\ UNCHANGED <<pc, unknownTrackDurations, durationsFile,
                   deletedScrobbles, csvFile, finishRest>>

\* logStats: the statistics are logged and, with a bot, sent; finishRun
\* returns the error of the send, and its deferred close runs.
LogStats ==
    /\ Alive
    /\ \E g \in Goroutines :
        /\ At(g, "logStats")
        /\ \E sent \in IF telegramBot THEN BOOLEAN ELSE {TRUE} :
            Goto(g, IF sent THEN "writeUnknown" ELSE "close")
    /\ finishCalls' = [finishCalls EXCEPT !.logStats = @ + 1]
    /\ UNCHANGED <<unknownTrackDurations, durationsFile, deletedScrobbles,
                   csvFile, finishRest>>

\* Lines 799-804 of finishRun.
WriteUnknown ==
    /\ Alive
    /\ \E g \in Goroutines :
        /\ At(g, "writeUnknown")
        /\ IF unknownTrackDurations = {}
           THEN /\ Goto(g, "export")
                /\ UNCHANGED <<unknownTrackDurations, durationsFile, finishCalls>>
           ELSE \E fault \in WriteFaults :
                \E w \in writeUnknownTrackDurations(
                              unknownTrackDurations, durationsFile, fault) :
                    /\ Goto(g, IF w.err THEN "close" ELSE "export")
                    /\ unknownTrackDurations' = w.unknown
                    /\ durationsFile' = w.file
                    /\ finishCalls' = [finishCalls EXCEPT !.writeUnknown = @ + 1]
    /\ UNCHANGED <<deletedScrobbles, csvFile, finishRest>>

\* Lines 806-808 of finishRun: exportScrobblesToCSV sorts
\* c.deletedScrobbles and writes the file, or logs the records when the file
\* cannot be created.
Export ==
    /\ Alive
    /\ \E g \in Goroutines :
        /\ At(g, "export")
        /\ Goto(g, "close")
        /\ IF deletedScrobbles = <<>>
           THEN UNCHANGED <<deletedScrobbles, csvFile, finishCalls>>
           ELSE /\ \E sorted \in SortedByTimestamp(deletedScrobbles) :
                    /\ deletedScrobbles' = sorted
                    /\ \/ csvFile' = [created |-> TRUE,
                                      rows |-> [i \in 1..Len(sorted) |-> csvRecord(sorted[i])]]
                       \/ csvFile' = csvFile
                /\ finishCalls' = [finishCalls EXCEPT !.export = @ + 1]
    /\ UNCHANGED <<unknownTrackDurations, durationsFile, finishRest>>

\* The deferred c.close() of finishRun.
Close ==
    /\ Alive
    /\ \E g \in Goroutines :
        /\ At(g, "close")
        /\ Goto(g, "finished")
    /\ finishCalls' = [finishCalls EXCEPT !.close = @ + 1]
    /\ UNCHANGED <<unknownTrackDurations, durationsFile, deletedScrobbles,
                   csvFile, finishRest>>

\* finishRun has returned: the handler calls os.Exit(1), Run returns.
Exit ==
    /\ Alive
    /\ \E g \in Goroutines :
        /\ At(g, "finished")
        /\ Goto(g, IF g = "main" THEN "returned" ELSE "exited")
    /\ UNCHANGED <<finishCalls, unknownTrackDurations, durationsFile,
                   deletedScrobbles, csvFile, finishRest>>

\* The scan goes on while the process runs.
ScanFetchPage == Alive /\ FetchPage
ScanFetchPageFails == Alive /\ FetchPageFails
ScanProcessScrobble == Alive /\ ProcessScrobble

\* A run in which ("A", "X") has an override and ("A", "Y") the empty
\* marker of an earlier run and a cached zero.
FinishSetup ==
    [utd |-> <<"A", "X">> :> "4m0s" @@ <<"A", "Y">> :> "",
     kv |-> cacheKey("A", "Y") :> "0s"]

FinishInit ==
    /\ config \in {c \in Configs : c.CompleteThreshold > 0}
    /\ userTrackDurations = FinishSetup.utd
    /\ cache = FinishSetup.kv
    /\ unknownTrackDurations = {}
    /\ runStats = NoStats
    /\ deletedScrobbles = <<>>
    /\ startPage \in 1..MaxStartPage
    /\ rowsLeft = MaxFinishScrobbles
    /\ currentPage = startPage
    /\ scrobbles = <<>>
    /\ previousScrobble = <<>>
    /\ pc = "fetch"
    /\ resolution = NoResolution
    /\ comparison = NoComparison
    /\ lastComparison = NoComparison
    /\ deleteRequests = <<>>
    /\ pageFetch = NoFetch
    /\ dryRun = NoDryRun
    /\ handler = "waiting"
    /\ finishCalls = NoFinishCalls
    /\ telegramBot \in BOOLEAN
    /\ durationsFile = Comments(HeaderLines) \o Marshal(FinishSetup.utd)
    /\ csvFile = NoCSV
    /\ FileIdle
    /\ LogIdle

FinishNext ==
    \/ ScanFetchPage
    \/ ScanFetchPageFails
    \/ ScanProcessScrobble
    \/ Interrupt
    \/ LogStats
    \/ WriteUnknown
    \/ Export
    \/ Close
    \/ Exit

SpecFinish == FinishInit /\ [][FinishNext]_vars

(***************************************************************************)
(* writeUnknownTrackDurations on its own, for the files a user can have    *)
(* left in DataDir and the unknown pairs a scan of it can have collected.  *)
(***************************************************************************)
\* The contents of track-durations.yaml: durations and empty markers.
UserMaps ==
    UNION {[pairs -> {"4m0s", ""}] : pairs \in SUBSET (Artists \X Tracks)}

PersistInit ==
    /\ config = [DuplicateThreshold |-> 90, CompleteThreshold |-> 50, CanDelete |-> FALSE]
    /\ userTrackDurations \in UserMaps
    /\ \E n \in 0..MaxComments :
        durationsFile = Comments(n) \o Marshal(userTrackDurations)
    /\ unknownTrackDurations \in
            SUBSET {p \in Artists \X Tracks :
                        userTrackDuration(userTrackDurations, p[1], p[2]) = ""}
    /\ unknownTrackDurations # {}
    /\ cache = <<>>
    /\ runStats = NoStats
    /\ deletedScrobbles = <<>>
    /\ startPage = 1
    /\ rowsLeft = 0
    /\ currentPage = 1
    /\ scrobbles = <<>>
    /\ previousScrobble = <<>>
    /\ pc = "writeUnknown"
    /\ resolution = NoResolution
    /\ comparison = NoComparison
    /\ lastComparison = NoComparison
    /\ deleteRequests = <<>>
    /\ pageFetch = NoFetch
    /\ dryRun = NoDryRun
    /\ handler = "waiting"
    /\ finishCalls = NoFinishCalls
    /\ telegramBot = FALSE
    /\ csvFile = NoCSV
    /\ FileIdle
    /\ LogIdle

PersistNext == WriteUnknown

SpecPersist == PersistInit /\ [][PersistNext]_vars

(***************************************************************************)
(* The file cache (internal/cache).  A line of the file is a sequence of   *)
(* characters without its newline; keys and values are such sequences.     *)
(***************************************************************************)
FileKeys == {<<"k">>, <<"j">>}
FileValues == {<<"v">>, <<"=", "w">>}

\* The position of the first "=" of the line from position i on, 0 if none.
RECURSIVE IndexOfEquals(_, _)
IndexOfEquals(line, i) ==
    IF i > Len(line) THEN 0
    ELSE IF line[i] = "=" THEN i
    ELSE IndexOfEquals(line, i + 1)

\* strings.SplitN(line, "=", 2)
SplitN(line) ==
    LET i == IndexOfEquals(line, 1)
    IN IF i = 0 THEN <<line>>
       ELSE <<SubSeq(line, 1, i - 1), SubSeq(line, i + 1, Len(line))>>

\* Faulty variant of FileSet: a key that is there keeps its value.
FileSetIfAbsent(d, key, value) ==
    [x \in DOMAIN d \cup {key} |-> IF x \in DOMAIN d THEN d[x] ELSE value]

\* c.data[key] = value
FileSet(d, key, value) ==
    [x \in DOMAIN d \cup {key} |-> IF x = key THEN value ELSE d[x]]

\* val, ok := c.data[key]
FileGet(d, key) ==
    IF key \in DOMAIN d THEN [miss |-> FALSE, value |-> d[key]]
    ELSE [miss |-> TRUE, value |-> <<>>]

RECURSIVE loadFrom(_, _, _)
loadFrom(lines, i, d) ==
    IF i > Len(lines) THEN d
    ELSE LET parts == SplitN(lines[i])
         IN loadFrom(lines, i + 1,
                     IF Len(parts) = 2 THEN FileSet(d, parts[1], parts[2]) ELSE d)

RECURSIVE loadFromFirstWins(_, _, _)
loadFromFirstWins(lines, i, d) ==
    IF i > Len(lines) THEN d
    ELSE LET parts == SplitN(lines[i])
         IN loadFromFirstWins(lines, i + 1,
                IF Len(parts) = 2 /\ parts[1] \notin DOMAIN d
                THEN FileSet(d, parts[1], parts[2]) ELSE d)

\* Faulty variant of load: the first line of a key is kept.
loadFirstWins(lines) == loadFromFirstWins(lines, 1, <<>>)

\* File.load: the map the lines of the file give.
load(lines) == loadFrom(lines, 1, <<>>)

\* Faulty variant of formatLine: the "=" is left out.
formatLineWithoutEquals(key, value) == key \o value

\* fmt.Fprintf(tmpFile, "%s=%s\n", k, v)
formatLine(key, value) == key \o <<"=">> \o value

FileGoroutines == {"caller", "flusher"}

\* What no step of the cache changes.
fileRest ==
    <<config, userTrackDurations, unknownTrackDurations, cache, runStats,
      deletedScrobbles, startPage, rowsLeft, currentPage, scrobbles,
      previousScrobble, pc, resolution, comparison, lastComparison, deleteRequests,
      pageFetch, dryRun, finishVars, logVars>>

\* Flush returns in goroutine g: the deferred Unlock runs; the flusher goes
\* back to its select, Close goes on to close the file.
FlushReturns(g, err) ==
    /\ mu' = "free"
    /\ filePc' = [filePc EXCEPT ![g] = IF g = "flusher" THEN "idle" ELSE "closeFile"]
    /\ fileLog' = IF g = "caller"
                  THEN [fileLog EXCEPT !.closeFlush = IF err THEN "failed" ELSE "ok"]
                  ELSE fileLog

\* case <-ticker.C: the flusher calls Flush.
Tick ==
    /\ filePc.flusher = "idle"
    /\ filePc' = [filePc EXCEPT !.flusher = "lock"]
    /\ fileLog' = [fileLog EXCEPT !.ticked = TRUE]
    /\ UNCHANGED <<data, mu, diskFile, tmpFile, fileHandle, callerOp>>
    /\ UNCHANGED fileRest

\* The caller calls Get or Set, and stands before c.mu.Lock().
CallGetOrSet ==
    /\ filePc.caller = "ready"
    /\ \/ \E key \in FileKeys :
            /\ callerOp' = [op |-> "get", key |-> key]
            /\ filePc' = [filePc EXCEPT !.caller = "get"]
       \/ \E key \in FileKeys, value \in FileValues :
            /\ callerOp' = [op |-> "set", key |-> key, value |-> value]
            /\ filePc' = [filePc EXCEPT !.caller = "set"]
    /\ UNCHANGED <<data, mu, diskFile, tmpFile, fileHandle, fileLog>>
    /\ UNCHANGED fileRest

\* File.Get with the mutex: lock, read, unlock.
DoGet ==
    /\ filePc.caller = "get"
    /\ mu = "free"
    /\ callerOp' = [op |-> "got", key |-> callerOp.key,
                    result |-> FileGet(data, callerOp.key)]
    /\ filePc' = [filePc EXCEPT !.caller = "ready"]
    /\ UNCHANGED <<data, mu, diskFile, tmpFile, fileHandle, fileLog>>
    /\ UNCHANGED fileRest

\* File.Set with the mutex: lock, write, unlock.
DoSet ==
    /\ filePc.caller = "set"
    /\ mu = "free"
    /\ data' = FileSet(data, callerOp.key, callerOp.value)
    /\ fileLog' = [fileLog EXCEPT !.sets = (callerOp.key :> callerOp.value) @@ @]
    /\ filePc' = [filePc EXCEPT !.caller = "ready"]
    /\ UNCHANGED <<mu, diskFile, tmpFile, fileHandle, callerOp>>
    /\ UNCHANGED fileRest

\* The caller calls Close, which calls Flush.
CallClose ==
    /\ filePc.caller = "ready"
    /\ callerOp' = [op |-> "close"]
    /\ filePc' = [filePc EXCEPT !.caller = "lock"]
    /\ UNCHANGED <<data, mu, diskFile, tmpFile, fileHandle, fileLog>>
    /\ UNCHANGED fileRest

\* Flush, line 180: c.mu.Lock()
FlushLock ==
    /\ mu = "free"
    /\ \E g \in FileGoroutines :
        /\ filePc[g] = "lock"
        /\ mu' = g
        /\ filePc' = [filePc EXCEPT ![g] = "openTmp"]
    /\ UNCHANGED <<data, diskFile, tmpFile, fileHandle, callerOp, fileLog>>
    /\ UNCHANGED fileRest

\* Flush, lines 183-187: the temporary file is created or truncated.
FlushOpenTmp ==
    /\ \E g \in FileGoroutines :
        /\ filePc[g] = "openTmp"
        /\ \/ /\ tmpFile' = [exists |-> TRUE, lines |-> <<>>]
              /\ filePc' = [filePc EXCEPT ![g] = "write"]
              /\ UNCHANGED <<mu, fileLog>>
           \/ /\ tmpFile' = tmpFile
              /\ FlushReturns(g, TRUE)
    /\ UNCHANGED <<data, diskFile, fileHandle, callerOp>>
    /\ UNCHANGED fileRest

\* The keys of c.data whose line is in the temporary file.
Written ==
    {key \in DOMAIN data :
        \E i \in 1..Len(tmpFile.lines) : tmpFile.lines[i] = formatLine(key, data[key])}

\* Flush, lines 189-197: one more line of the map, in the order the range
\* takes, or the end of the loop.
FlushWrite ==
    /\ \E g \in FileGoroutines :
        /\ filePc[g] = "write"
        /\ IF DOMAIN data \ Written = {}
           THEN /\ filePc' = [filePc EXCEPT ![g] = "sync"]
                /\ UNCHANGED <<tmpFile, mu, fileLog>>
           ELSE \/ \E key \in DOMAIN data \ Written :
                    /\ tmpFile' = [tmpFile EXCEPT
                                        !.lines = Append(@, formatLine(key, data[key]))]
                    /\ UNCHANGED <<filePc, mu, fileLog>>
                \/ /\ tmpFile' = tmpFile
                   /\ FlushReturns(g, TRUE)
    /\ UNCHANGED <<data, diskFile, fileHandle, callerOp>>
    /\ UNCHANGED fileRest

\* Flush, lines 199-208: tmpFile.Sync() and tmpFile.Close().
FlushSync ==
    /\ \E g \in FileGoroutines :
        /\ filePc[g] = "sync"
        /\ \/ /\ filePc' = [filePc EXCEPT ![g] = "rename"]
              /\ UNCHANGED <<mu, fileLog>>
           \/ FlushReturns(g, TRUE)
    /\ UNCHANGED <<data, diskFile, tmpFile, fileHandle, callerOp>>
    /\ UNCHANGED fileRest

\* Faulty variant of FlushRename: the lines are appended to the file.
FlushAppendsToFile ==
    /\ \E g \in FileGoroutines :
        /\ filePc[g] = "rename"
        /\ \/ /\ diskFile' = diskFile \o tmpFile.lines
              /\ tmpFile' = NoTmp
              /\ filePc' = [filePc EXCEPT ![g] = "reopen"]
              /\ UNCHANGED <<mu, fileLog>>
           \/ /\ UNCHANGED <<diskFile, tmpFile>>
              /\ FlushReturns(g, TRUE)
    /\ UNCHANGED <<data, fileHandle, callerOp>>
    /\ UNCHANGED fileRest

\* Flush, lines 210-213: os.Rename(tmpPath, c.path).
FlushRename ==
    /\ \E g \in FileGoroutines :
        /\ filePc[g] = "rename"
        /\ \/ /\ diskFile' = tmpFile.lines
              /\ tmpFile' = NoTmp
              /\ filePc' = [filePc EXCEPT ![g] = "reopen"]
              /\ UNCHANGED <<mu, fileLog>>
           \/ /\ UNCHANGED <<diskFile, tmpFile>>
              /\ FlushReturns(g, TRUE)
    /\ UNCHANGED <<data, fileHandle, callerOp>>
    /\ UNCHANGED fileRest

\* Flush, lines 215-228: the file is opened again and the old handle
\* closed; closing a handle that is closed already is an error.
FlushReopen ==
    /\ \E g \in FileGoroutines :
        /\ filePc[g] = "reopen"
        /\ \/ /\ fileHandle = "open"
              /\ FlushReturns(g, FALSE)
           \/ FlushReturns(g, TRUE)
    /\ UNCHANGED <<data, diskFile, tmpFile, fileHandle, callerOp>>
    /\ UNCHANGED fileRest

\* Close, lines 171-173: c.file.Close(), and Close returns.
CloseFile ==
    /\ filePc.caller = "closeFile"
    /\ fileHandle' = "closed"
    /\ filePc' = [filePc EXCEPT !.caller = "closed"]
    /\ UNCHANGED <<data, mu, diskFile, tmpFile, callerOp, fileLog>>
    /\ UNCHANGED fileRest

\* The files NewFile can find at the path.
InitialFiles ==
    {<<>>,
     <<formatLine(<<"k">>, <<"v">>)>>,
     <<formatLine(<<"k">>, <<"v">>), <<"j">>, formatLine(<<"k">>, <<"=", "w">>)>>}

\* NewFile: the file is loaded and the flusher started.
FileInit ==
    /\ config = [DuplicateThreshold |-> 90, CompleteThreshold |-> 50, CanDelete |-> FALSE]
    /\ userTrackDurations = <<>>
    /\ unknownTrackDurations = {}
    /\ cache = <<>>
    /\ runStats = NoStats
    /\ deletedScrobbles = <<>>
    /\ startPage = 1
    /\ rowsLeft = 0
    /\ currentPage = 1
    /\ scrobbles = <<>>
    /\ previousScrobble = <<>>
    /\ pc = "fetch"
    /\ resolution = NoResolution
    /\ comparison = NoComparison
    /\ lastComparison = NoComparison
    /\ deleteRequests = <<>>
    /\ pageFetch = NoFetch
    /\ dryRun = NoDryRun
    /\ FinishIdle
    /\ LogIdle
    /\ diskFile \in InitialFiles
    /\ data = load(diskFile)
    /\ mu = "free"
    /\ tmpFile = NoTmp
    /\ fileHandle = "open"
    /\ filePc = [caller |-> "ready", flusher |-> "idle"]
    /\ callerOp = NoOp
    /\ fileLog = NoFileLog

\* load on its own, for the files NewFile can be given.
MaxFileLines == 3

LoadLines ==
    {<<>>, <<"k">>, <<"k", "=">>, <<"=", "v">>, <<"k", "=", "v">>,
     <<"k", "=", "w">>, <<"k", "=", "=", "w">>, <<"j", "=", "v">>}

FilesToLoad == UNION {[1..n -> LoadLines] : n \in 0..MaxFileLines}

LoadInit ==
    /\ config = [DuplicateThreshold |-> 90, CompleteThreshold |-> 50, CanDelete |-> FALSE]
    /\ userTrackDurations = <<>>
    /\ unknownTrackDurations = {}
    /\ cache = <<>>
    /\ runStats = NoStats
    /\ deletedScrobbles = <<>>
    /\ startPage = 1
    /\ rowsLeft = 0
    /\ currentPage = 1
    /\ scrobbles = <<>>
    /\ previousScrobble = <<>>
    /\ pc = "fetch"
    /\ resolution = NoResolution
    /\ comparison = NoComparison
    /\ lastComparison = NoComparison
    /\ deleteRequests = <<>>
    /\ pageFetch = NoFetch
    /\ dryRun = NoDryRun
    /\ FinishIdle
    /\ LogIdle
    /\ diskFile \in FilesToLoad
    /\ data = <<>>
    /\ mu = "free"
    /\ tmpFile = NoTmp
    /\ fileHandle = "open"
    /\ filePc = [caller |-> "load", flusher |-> "idle"]
    /\ callerOp = [op |-> "load"]
    /\ fileLog = NoFileLog

\* NewFile, lines 108-112: c.load()
Load ==
    /\ filePc.caller = "load"
    /\ data' = load(diskFile)
    /\ filePc' = [filePc EXCEPT !.caller = "ready"]
    /\ callerOp' = [op |-> "loaded"]
    /\ UNCHANGED <<mu, diskFile, tmpFile, fileHandle, fileLog>>
    /\ UNCHANGED fileRest

LoadNext ==
    \/ Load

SpecLoad == LoadInit /\ [][LoadNext]_vars

FileNext ==
    \/ Tick
    \/ CallGetOrSet
    \/ DoGet
    \/ DoSet
    \/ CallClose
    \/ FlushLock
    \/ FlushOpenTmp
    \/ FlushWrite
    \/ FlushSync
    \/ FlushRename
    \/ FlushReopen
    \/ CloseFile

SpecFile == FileInit /\ [][FileNext]_vars

(***************************************************************************)
(* Run from its first statement: checkConfig, initApp, login,              *)
(* getStartPage, getUserTrackDurations, and then the page walk.  A         *)
(* time.Time is a day number, 0 for the zero time; a string option is ""   *)
(* or "set".                                                               *)
(***************************************************************************)
MaxStartScrobbles == 1

\* Faulty variant of checkConfig: thresholds above 100 pass.
checkConfigWithoutUpperLimit(c) ==
    IF c.CacheType = "redis" /\ c.RedisURL = "" THEN "redis-url"
    ELSE IF c.StartPage # 0 /\ (c.From # 0 \/ c.To # 0) THEN "start-page"
    ELSE IF c.From # 0 /\ c.To # 0 /\ c.From > c.To THEN "from-to"
    ELSE IF c.DuplicateThreshold < 0 THEN "duplicate-threshold"
    ELSE IF c.CompleteThreshold < 0 THEN "complete-threshold"
    ELSE IF \/ c.TelegramBotToken # "" /\ c.TelegramChatID = ""
            \/ c.TelegramBotToken = "" /\ c.TelegramChatID # "" THEN "telegram"
    ELSE ""

\* checkConfig: what the error is about, "" for nil.
checkConfig(c) ==
    IF c.CacheType = "redis" /\ c.RedisURL = "" THEN "redis-url"
    ELSE IF c.StartPage # 0 /\ (c.From # 0 \/ c.To # 0) THEN "start-page"
    ELSE IF c.From # 0 /\ c.To # 0 /\ c.From > c.To THEN "from-to"
    ELSE IF c.DuplicateThreshold < 0 \/ c.DuplicateThreshold > 100
    THEN "duplicate-threshold"
    ELSE IF c.CompleteThreshold < 0 \/ c.CompleteThreshold > 100
    THEN "complete-threshold"
    ELSE IF \/ c.TelegramBotToken # "" /\ c.TelegramChatID = ""
            \/ c.TelegramBotToken = "" /\ c.TelegramChatID # "" THEN "telegram"
    ELSE ""

\* The configurations Run can be called with.
StartConfigs ==
    [DuplicateThreshold : {-1, 0, 90, 101},
     CompleteThreshold : {-1, 50, 100, 101},
     CanDelete : BOOLEAN,
     StartPage : {0, 1},
     From : {0, 1, 2},
     To : {0, 1, 2},
     CacheType : {"inmemory", "redis"},
     RedisURL : {"", "set"},
     TelegramBotToken : {"", "set"},
     TelegramChatID : {"set"}]

\* What no step of Run before the page walk changes.
startRest ==
    <<config, unknownTrackDurations, runStats, deletedScrobbles, rowsLeft,
      scrobbles, previousScrobble, resolution, comparison, lastComparison,
      deleteRequests, pageFetch, dryRun, finishVars, fileVars, walkLog>>

\* Run, lines 126-129: checkConfig and the return of its error.
CheckConfig ==
    /\ pc = "checkConfig"
    /\ pc' = IF checkConfig(config) = "" THEN "initApp" ELSE "invalidConfig"
    /\ UNCHANGED <<runLog, cache, userTrackDurations, startPage, currentPage>>
    /\ UNCHANGED startRest

\* initApp: the cache is created (for Redis after a ping of the server,
\* which can fail, and with what the server holds), then the browser is
\* started, which can fail.
InitApp ==
    /\ pc = "initApp"
    /\ \/ /\ config.CacheType = "redis"
          /\ runLog' = runLog \o <<"redisPing">>
          /\ cache' = cache
          /\ pc' = "failed"
       \/ /\ \E kv \in IF config.CacheType = "redis"
                        THEN {<<>>, cacheKey("A", "X") :> "4m0s"}
                        ELSE {<<>>} :
                cache' = kv
          /\ runLog' = runLog
                        \o (IF config.CacheType = "redis" THEN <<"redisPing">> ELSE <<>>)
                        \o <<"newCache", "startBrowser">>
          /\ pc' \in {"login", "failed"}
    /\ UNCHANGED <<userTrackDurations, startPage, currentPage>>
    /\ UNCHANGED startRest

\* login: the login page is driven in the browser.
Login ==
    /\ pc = "login"
    /\ runLog' = Append(runLog, "login")
    /\ pc' \in {"getStartPage", "failed"}
    /\ UNCHANGED <<cache, userTrackDurations, startPage, currentPage>>
    /\ UNCHANGED startRest

\* getStartPage: the library page is fetched; a library of one page.
GetStartPage ==
    /\ pc = "getStartPage"
    /\ runLog' = Append(runLog, "getStartPage")
    /\ \/ /\ pc' = "getUserTrackDurations"
          /\ startPage' = 1
       \/ /\ pc' = "failed"
          /\ startPage' = startPage
    /\ UNCHANGED <<cache, userTrackDurations, currentPage>>
    /\ UNCHANGED startRest

\* getUserTrackDurations, and the first statement of the page walk.
GetUserTrackDurations ==
    /\ pc = "getUserTrackDurations"
    /\ \/ /\ userTrackDurations' \in {<<>>, <<"A", "X">> :> "4m0s"}
          /\ pc' = "fetch"
          /\ currentPage' = startPage
       \/ /\ pc' = "failed"
          /\ UNCHANGED <<userTrackDurations, currentPage>>
    /\ UNCHANGED <<runLog, cache, startPage>>
    /\ UNCHANGED startRest

StartInit ==
    /\ config \in StartConfigs
    /\ userTrackDurations = <<>>
    /\ unknownTrackDurations = {}
    /\ cache = <<>>
    /\ runStats = NoStats
    /\ deletedScrobbles = <<>>
    /\ startPage = 0
    /\ rowsLeft = MaxStartScrobbles
    /\ currentPage = 0
    /\ scrobbles = <<>>
    /\ previousScrobble = <<>>
    /\ pc = "checkConfig"
    /\ resolution = NoResolution
    /\ comparison = NoComparison
    /\ lastComparison = NoComparison
    /\ deleteRequests = <<>>
    /\ pageFetch = NoFetch
    /\ dryRun = NoDryRun
    /\ BeyondScanIdle

StartNext ==
    \/ CheckConfig
    \/ InitApp
    \/ Login
    \/ GetStartPage
    \/ GetUserTrackDurations
    \/ FetchPage
    \/ FetchPageFails
    \/ ProcessScrobble

SpecStart == StartInit /\ [][StartNext]_vars

(***************************************************************************)
(* The page walk over a library as the site shows it: every page newest    *)
(* row first, and no row of a page older than a row of a page with a       *)
(* higher number.  walkLog keeps the pages fetched and, for every scrobble *)
(* handed to processPreviousAndCurrentScrobbles, its page and timestamp.   *)
(***************************************************************************)
MaxChronoScrobbles == 3

ChronoFetchPage ==
    /\ FetchPageStep
    /\ \A i \in 1..Len(scrobbles') : \A j \in 1..Len(walkLog.fed) :
           scrobbles'[i].timestamp >= walkLog.fed[j].timestamp
    /\ walkLog' = [walkLog EXCEPT !.pages = Append(@, currentPage)]
    /\ UNCHANGED <<finishVars, fileVars, runLog>>

ChronoFetchPageFails == FetchPageFails

ChronoProcessScrobble ==
    /\ ProcessScrobbleStep
    /\ walkLog' = [walkLog EXCEPT
                        !.fed = Append(@, [page |-> currentPage,
                                           timestamp |-> Head(scrobbles).timestamp])]
    /\ UNCHANGED <<finishVars, fileVars, runLog>>

ChronoInit == RunStarts({WalkSetup}, MaxChronoScrobbles)

ChronoNext ==
    \/ ChronoFetchPage
    \/ ChronoFetchPageFails
    \/ ChronoProcessScrobble

SpecChrono == ChronoInit /\ [][ChronoNext]_vars

(***************************************************************************)
(* A run from the page walk to the return of Run, without a signal: the    *)
(* scan over a history long enough for two pages with a classified pair    *)
(* each, then finishRun on the main goroutine.                             *)
(***************************************************************************)
MaxExportScrobbles == 4

ExportInit == RunStarts({WalkSetup}, MaxExportScrobbles)

ExportNext ==
    \/ ScanFetchPage
    \/ ScanFetchPageFails
    \/ ScanProcessScrobble
    \/ LogStats
    \/ WriteUnknown
    \/ Export
    \/ Close
    \/ Exit

SpecExport == ExportInit /\ [][ExportNext]_vars

(***************************************************************************)
(* getScrobbles with the browser in view.  The navigation to the page can  *)
(* fail with the browser left on the page it showed before; the rows are   *)
(* then read from that page.  runLog keeps, for every getScrobbles that    *)
(* returned rows, the page asked for, whether the navigation succeeded and *)
(* the scrobbles returned.  Before the first call the browser shows the    *)
(* library page getStartPage opened.                                       *)
(***************************************************************************)
MaxNavScrobbles == 4

\* The site shows every scrobble on one page and once: the scrobbles of a
\* page navigated to differ from one another and from those returned
\* before.
FreshScrobbles(q) ==
    /\ \A i \in 1..Len(q), j \in 1..Len(q) : i # j => q[i] # q[j]
    /\ \A i \in 1..Len(q), k \in 1..Len(runLog) :
           \A j \in 1..Len(runLog[k].scrobbles) : q[i] # runLog[k].scrobbles[j]

NavFetchPage ==
    /\ FetchPageStep
    /\ \E navigated \in BOOLEAN :
        /\ IF ~navigated /\ runLog # <<>>
           THEN scrobbles' = runLog[Len(runLog)].scrobbles
           ELSE FreshScrobbles(scrobbles')
        /\ runLog' = Append(runLog, [page |-> currentPage, navigated |-> navigated,
                                     scrobbles |-> scrobbles'])
    /\ UNCHANGED <<finishVars, fileVars, walkLog>>

NavFetchPageFails == FetchPageFails

NavProcessScrobble == ProcessScrobble

NavInit == RunStarts({WalkSetup}, MaxNavScrobbles)

NavNext ==
    \/ NavFetchPage
    \/ NavFetchPageFails
    \/ NavProcessScrobble

SpecNav == NavInit /\ [][NavNext]_vars

(***************************************************************************)
(* Properties of the scan (Spec, SpecWalk).                                *)
(***************************************************************************)
\* C3: every delete request of the scan is (previous.timestampString,
\* false) for a pair classified duplicate or (current.timestampString,
\* true) for a pair classified incomplete.
C3_DeleteRequestTargets ==
    \A i \in 1..Len(deleteRequests) :
        /\ comparison.compared
        /\ \/ /\ comparison.kind = "duplicate"
              /\ deleteRequests[i] =
                    [timestamp |-> comparison.previous.timestampString,
                     deleteCurrentScrobble |-> FALSE]
           \/ /\ comparison.kind = "incomplete"
              /\ deleteRequests[i] =
                    [timestamp |-> comparison.current.timestampString,
                     deleteCurrentScrobble |-> TRUE]

\* A duplicate whose two scrobbles have different timestamps has been
\* handed to deleteScrobble.
C3_DuplicateDeleteRequested ==
    /\ deleteRequests # <<>>
    /\ comparison.compared
    /\ comparison.kind = "duplicate"
    /\ comparison.previous.timestampString # comparison.current.timestampString

\* C4: previous carries over across page boundaries: when the next page is
\* started, previous is what the page before left, not empty.
C4_PreviousCarriesOverPages ==
    [][(pc = "fetch" /\ pc' = "process") => previousScrobble' = previousScrobble]_vars

\* The first scrobble of a later page is about to be processed, scrobbles
\* of an earlier page have been processed, and there is no previous.
C4_PreviousEmptyOnLaterPage ==
    /\ pc = "process"
    /\ currentPage < startPage
    /\ runStats.processedScrobbles > 0
    /\ previousScrobble = <<>>

\* C5: after a pair classified neither duplicate nor incomplete, and after
\* a pair classified duplicate, the previous of the next comparison is the
\* current scrobble of that pair.
C5_NextComparisonUsesCurrent ==
    [][(/\ comparison'.compared
        /\ lastComparison.compared
        /\ lastComparison.kind \in {"none", "duplicate"})
            => comparison'.previous = lastComparison.current]_vars

\* The scrobble of the last resolution, as it is after the call.
ResolvedScrobbleIs(r, s) ==
    /\ s.artist = r.artist
    /\ s.track = r.track
    /\ s.timestampString = r.timestampString
    /\ s.trackDuration = r.trackDuration

\* C6: a scrobble whose duration resolution failed is not classified: it is
\* not compared as current, causes no delete request, is not appended to
\* deletedScrobbles, and is not the previous of the comparison that follows.
C6_SkippedNeverClassified ==
    [][/\ (resolution'.called /\ resolution'.err # "nil") =>
            /\ ~comparison'.compared
            /\ deleteRequests' = <<>>
            /\ deletedScrobbles' = deletedScrobbles
       /\ (resolution.called /\ resolution.err # "nil" /\ comparison'.compared) =>
            ~ResolvedScrobbleIs(resolution, comparison'.previous)]_vars

\* A delete request has been made for a scrobble whose resolution failed:
\* without overrides, only a failed resolution leaves a duration of 0.
C6_SkippedScrobbleDeleted ==
    /\ comparison.compared
    /\ comparison.kind = "duplicate"
    /\ comparison.previous.trackDuration = 0
    /\ userTrackDurations = <<>>
    /\ deleteRequests # <<>>

(***************************************************************************)
(* Properties of the duration resolution (Spec).                           *)
(***************************************************************************)
\* The entry of track-durations.yaml for the pair, "" when there is none.
OverrideOf(artist, track) ==
    IF <<artist, track>> \in DOMAIN userTrackDurations
    THEN userTrackDurations[<<artist, track>>]
    ELSE ""

\* The counters and maps a resolution may touch are as they were.
ResolutionLeftAlone ==
    /\ cache' = cache
    /\ unknownTrackDurations' = unknownTrackDurations
    /\ runStats'.cacheHits = runStats.cacheHits
    /\ runStats'.cacheMisses = runStats.cacheMisses
    /\ runStats'.unknownTrackDurationsCount = runStats.unknownTrackDurationsCount

\* C7: with a non-empty, parseable override for the pair, getTrackDuration
\* succeeds with exactly that duration, makes no cache Get, Set or Delete
\* and no search or Last.fm lookup, and leaves cacheHits, cacheMisses, the
\* cache and the unknown track durations as they were.
C7_OverrideUsedAlone ==
    [][resolution'.called =>
        LET override == OverrideOf(resolution'.artist, resolution'.track)
        IN (override # "" /\ ~ParseDuration(override).err) =>
              /\ resolution'.err = "nil"
              /\ resolution'.trackDuration = ParseDuration(override).d
              /\ resolution'.calls = NoCalls
              /\ ResolutionLeftAlone]_vars

\* An override has been used for a pair that the cache holds an entry for.
C7_OverrideUsedDespiteCache ==
    /\ resolution.called
    /\ resolution.path = "override"
    /\ resolution.trackDuration = 4 * 60 * Second
    /\ cacheKey(resolution.artist, resolution.track) \in DOMAIN cache

\* C8: with a non-empty override that does not parse, the resolution does
\* not end at the override: the unknown track durations, the cache and the
\* lookups decide.
C8_BadOverrideFallsThrough ==
    resolution.called =>
        LET override == OverrideOf(resolution.artist, resolution.track)
        IN (override # "" /\ ParseDuration(override).err) =>
              resolution.path # "override"

\* A resolution has ended at an override that does not parse, with success
\* and a duration of 0.
C8_BadOverrideUsed ==
    /\ resolution.called
    /\ OverrideOf(resolution.artist, resolution.track) = BadDurationString
    /\ resolution.path = "override"
    /\ resolution.err = "nil"
    /\ resolution.trackDuration = 0

\* C9: once a pair is in the unknown track durations (and has no non-empty
\* override), a resolution of it fails with ErrUnknownTrackAlreadyInMap,
\* makes no cache or lookup call and leaves cacheHits, cacheMisses,
\* unknownTrackDurationsCount, the cache and the unknown track durations as
\* they were; and no step removes a pair from the unknown track durations.
C9_UnknownShortCircuits ==
    [][/\ unknownTrackDurations \subseteq unknownTrackDurations'
       /\ (/\ resolution'.called
           /\ <<resolution'.artist, resolution'.track>> \in unknownTrackDurations
           /\ OverrideOf(resolution'.artist, resolution'.track) = "") =>
              /\ resolution'.err = "ErrUnknownTrackAlreadyInMap"
              /\ resolution'.calls = NoCalls
              /\ ResolutionLeftAlone]_vars

\* A pair that a search left unresolved has been resolved again, in a run
\* whose cache served no lookup.
C9_UnknownResolvedAgain ==
    /\ resolution.called
    /\ resolution.path = "unknown"
    /\ <<resolution.artist, resolution.track>> \in unknownTrackDurations
    /\ runStats.cacheMisses = 1
    /\ runStats.cacheHits = 0
    /\ runStats.skippedScrobbleUnknownDuration = 2

\* The cache answers the lookup of the pair with a duration that parses and
\* is not positive.
NegativeEntryFor(artist, track) ==
    /\ cacheKey(artist, track) \in DOMAIN cache
    /\ ~ParseDuration(cache[cacheKey(artist, track)]).err
    /\ ParseDuration(cache[cacheKey(artist, track)]).d <= 0

CacheAnswered(r) ==
    /\ r.called
    /\ OverrideOf(r.artist, r.track) = ""
    /\ <<r.artist, r.track>> \notin unknownTrackDurations
    /\ r.path # "getError"

\* C11: a cache hit with a positive duration succeeds with the cached
\* duration, raises cacheHits by exactly 1, leaves cacheMisses, the cache
\* and the unknown track durations as they were and makes no search or
\* Last.fm lookup; a miss raises cacheMisses by exactly 1 and leaves
\* cacheHits as it was.
C11_HitUsedMissCounted ==
    [][CacheAnswered(resolution') =>
        LET key == cacheKey(resolution'.artist, resolution'.track)
        IN IF key \in DOMAIN cache
           THEN (~ParseDuration(cache[key]).err /\ ParseDuration(cache[key]).d > 0) =>
                    /\ resolution'.path = "hit"
                    /\ resolution'.err = "nil"
                    /\ resolution'.trackDuration = ParseDuration(cache[key]).d
                    /\ resolution'.calls = [NoCalls EXCEPT !.gets = 1]
                    /\ runStats'.cacheHits = runStats.cacheHits + 1
                    /\ runStats'.cacheMisses = runStats.cacheMisses
                    /\ runStats'.unknownTrackDurationsCount =
                            runStats.unknownTrackDurationsCount
                    /\ cache' = cache
                    /\ unknownTrackDurations' = unknownTrackDurations
           ELSE /\ resolution'.path = "miss"
                /\ runStats'.cacheMisses = runStats.cacheMisses + 1
                /\ runStats'.cacheHits = runStats.cacheHits]_vars

\* A cached 4m0s has been used for a scrobble, and a miss has been counted
\* in the same run.
C11_HitAfterMiss ==
    /\ resolution.called
    /\ resolution.path = "hit"
    /\ resolution.err = "nil"
    /\ resolution.trackDuration = 4 * 60 * Second
    /\ runStats.cacheHits = 1
    /\ runStats.cacheMisses = 1

\* C12: one resolution calls the MusicBrainz search at most SearchMaxTries
\* times, and only after a cache miss; a search that returns without error
\* ends the retry loop with that call, also when it found no recording or a
\* recording of length 0, and such an answer does not resolve the track: a
\* success after it has its duration from the Last.fm lookup.
C12_SearchBoundedNotRetriedOnEmpty ==
    resolution.called =>
        LET c == resolution.calls
        IN /\ c.searches <= SearchMaxTries
           /\ c.searches > 0 => resolution.path = "miss"
           /\ c.searchAnswer # <<>> => c.searches = c.searchErrors + 1
           /\ (c.searches > 0 /\ c.searchAnswer = <<>>) =>
                    /\ c.searches = SearchMaxTries
                    /\ c.searchErrors = SearchMaxTries
           /\ (c.searchAnswer = <<0>> /\ resolution.err = "nil") =>
                    /\ c.lookups = 1
                    /\ c.lookupAnswer = <<resolution.trackDuration>>

\* The first search call answered without a duration, was not repeated, and
\* the track was left unresolved.
C12_EmptyAnswerNotRetried ==
    /\ resolution.called
    /\ resolution.calls.searches = 1
    /\ resolution.calls.searchAnswer = <<0>>
    /\ resolution.err = "savedToUnknown"

\* C13: a resolution makes the Last.fm lookup by the scrobble's URL exactly
\* once when the search answered without error and without a positive
\* duration, and never otherwise: not after a positive search answer, a
\* search that failed on every try, a cache hit, an override or the
\* unknown-track short cut.
C13_FallbackOnceWhenSearchEmpty ==
    resolution.called =>
        LET c == resolution.calls
            emptyAnswer == c.searchAnswer # <<>> /\ c.searchAnswer[1] <= 0
        IN /\ c.lookups = IF emptyAnswer THEN 1 ELSE 0
           /\ (c.lookupAnswer # <<>>) <=> (c.lookups = 1)
           /\ resolution.path \in {"override", "unknown", "hit", "getError"} =>
                    c.lookups = 0 /\ c.searches = 0

\* The search answered without a duration and the one Last.fm lookup gave
\* the duration of the scrobble.
C13_FallbackResolved ==
    /\ resolution.called
    /\ resolution.calls.searchAnswer = <<0>>
    /\ resolution.calls.lookups = 1
    /\ resolution.err = "nil"
    /\ resolution.trackDuration = 4 * 60 * Second

\* The duration the search and, if made, the Last.fm lookup left.
FoundDuration(c) ==
    IF c.lookups = 1 THEN c.lookupAnswer[1] ELSE c.searchAnswer[1]

\* C14: after a search that answered, if search and Last.fm lookup leave a
\* duration <= 0 the pair is added to the unknown track durations, no Set
\* is made and the resolution fails; otherwise the resolution succeeds with
\* that duration and it is written to the cache under the pair's key, and
\* the resolution succeeds as well when the Set fails.
C14_UnknownOrCached ==
    [][(/\ resolution'.called
        /\ resolution'.path = "miss"
        /\ resolution'.calls.searchAnswer # <<>>) =>
        LET c == resolution'.calls
            found == FoundDuration(c)
            pair == <<resolution'.artist, resolution'.track>>
            key == cacheKey(resolution'.artist, resolution'.track)
        IN IF found <= 0
           THEN /\ resolution'.err = "savedToUnknown"
                /\ pair \notin unknownTrackDurations
                /\ unknownTrackDurations' = unknownTrackDurations \cup {pair}
                /\ runStats'.unknownTrackDurationsCount =
                        runStats.unknownTrackDurationsCount + 1
                /\ c.sets = 0
                /\ cache' = cache
           ELSE /\ resolution'.err = "nil"
                /\ resolution'.trackDuration = found
                /\ unknownTrackDurations' = unknownTrackDurations
                /\ c.sets = 1
                /\ IF c.setFailed THEN cache' = cache
                   ELSE /\ DOMAIN cache' = DOMAIN cache \cup {key}
                        /\ cache'[key] = DurationString(found)
                        /\ \A k \in DOMAIN cache : k # key => cache'[k] = cache[k]]_vars

\* A resolution has succeeded with the duration the search found although
\* the cache Set failed.
C14_SuccessDespiteFailedSet ==
    /\ resolution.called
    /\ resolution.path = "miss"
    /\ resolution.err = "nil"
    /\ resolution.calls.sets = 1
    /\ resolution.calls.setFailed
    /\ cacheKey(resolution.artist, resolution.track) \notin DOMAIN cache

\* C15: when the search has failed on every one of its SearchMaxTries
\* calls, the resolution fails without a Last.fm lookup, the pair is not
\* added to the unknown track durations, unknownTrackDurationsCount and the
\* cache are as they were, and the next resolution of the same pair starts
\* with a cache Get again.
C15_TransientFailureNotRecorded ==
    [][/\ (resolution'.called /\ resolution'.err = "musicBrainz") =>
            /\ resolution'.calls.searches = SearchMaxTries
            /\ resolution'.calls.searchErrors = SearchMaxTries
            /\ resolution'.calls.lookups = 0
            /\ resolution'.calls.sets = 0
            /\ resolution'.calls.deletes = 0
            /\ unknownTrackDurations' = unknownTrackDurations
            /\ runStats'.unknownTrackDurationsCount =
                    runStats.unknownTrackDurationsCount
            /\ cache' = cache
       /\ (/\ resolution.called
           /\ resolution.err = "musicBrainz"
           /\ resolution'.called
           /\ resolution'.artist = resolution.artist
           /\ resolution'.track = resolution.track) =>
            /\ resolution'.calls.gets = 1
            /\ resolution'.path \in {"miss", "getError"}
            /\ resolution'.path = "miss" => resolution'.calls.searches >= 1]_vars

\* After a scrobble whose search failed on every try, the next scrobble of
\* the same pair has been looked up afresh and resolved.
C15_ResolvedAfterTransientFailure ==
    /\ resolution.called
    /\ resolution.path = "miss"
    /\ resolution.err = "nil"
    /\ runStats.processedScrobbles = 2
    /\ runStats.cacheMisses = 2
    /\ runStats.skippedScrobbleUnknownDuration = 1
    /\ runStats.unknownTrackDurationsCount = 0
    /\ comparison.compared
    /\ comparison.previous.artist = comparison.current.artist
    /\ comparison.previous.track = comparison.current.track

\* C16: a resolution failure does not end the run: every processed
\* scrobble raises skippedScrobbleUnknownDuration by exactly 1 if its
\* resolution returned an error and by 0 otherwise, the walk goes on to the
\* next scrobble of the page, else to the next page, else it ends normally,
\* and the run is only ever aborted from a page fetch.
C16_SkipAndCount ==
    [][/\ resolution'.called =>
            /\ runStats'.skippedScrobbleUnknownDuration =
                    runStats.skippedScrobbleUnknownDuration
                    + (IF resolution'.err # "nil" THEN 1 ELSE 0)
            /\ runStats'.processedScrobbles = runStats.processedScrobbles + 1
            /\ scrobbles' = Tail(scrobbles)
            /\ pc' = IF Tail(scrobbles) # <<>> THEN "process"
                     ELSE IF currentPage > EndPage THEN "fetch"
                     ELSE "scanned"
            /\ currentPage' = IF Tail(scrobbles) = <<>> /\ currentPage > EndPage
                              THEN currentPage - 1
                              ELSE currentPage
       /\ pc' = "aborted" => pc \in {"fetch", "aborted"}]_vars

\* A scrobble has been resolved and a later page has been reached after a
\* scrobble that was skipped.
C16_ProcessedAfterSkip ==
    /\ resolution.called
    /\ resolution.err = "nil"
    /\ runStats.skippedScrobbleUnknownDuration = 1
    /\ runStats.processedScrobbles = 2
    /\ currentPage < startPage

\* C17: a page is fetched with at most PageMaxTries calls of getScrobbles;
\* when all of them fail the run is aborted on that page, and after the
\* abort no step is taken: no page is fetched, no scrobble is resolved,
\* classified or deleted.  A run is aborted for no other reason.
C17_FetchBoundedThenAbort ==
    [][/\ pc # "aborted"
       /\ pageFetch'.tries <= PageMaxTries
       /\ pageFetch'.tries > 0 => pc = "fetch"
       /\ pageFetch'.err =>
            /\ pageFetch'.tries = PageMaxTries
            /\ pc' = "aborted"
            /\ UNCHANGED <<currentPage, rowsLeft, scrobbles, runStats,
                           deletedScrobbles, cache, unknownTrackDurations>>
            /\ ~resolution'.called
            /\ ~comparison'.compared
            /\ deleteRequests' = <<>>
       /\ pc' = "aborted" => pageFetch'.err]_vars

\* The run was aborted on a later page, with scrobbles processed before and
\* rows of the library never fetched.
C17_AbortedMidRun ==
    /\ pc = "aborted"
    /\ pageFetch.err
    /\ currentPage < startPage
    /\ runStats.processedScrobbles > 0
    /\ rowsLeft > 0

\* C18: a classified pair is deleted with at most DeleteMaxTries calls of
\* deleteScrobble; when all of them fail scrobbleDeleteFails rises by 1
\* (and by 0 in every other step), the run is not aborted, the record
\* appended to DeletedScrobbles for the pair stays there, and the walk goes
\* on with a previous scrobble to compare the next one with.  No step ever
\* removes a record from DeletedScrobbles.
C18_DeleteBoundedFailureCounted ==
    [][/\ Len(deleteRequests') <= DeleteMaxTries
       /\ SubSeq(deletedScrobbles', 1, Len(deletedScrobbles)) = deletedScrobbles
       /\ IF comparison'.compared /\ comparison'.kind # "none" /\ comparison'.deleteErr
          THEN /\ Len(deleteRequests') = DeleteMaxTries
               /\ runStats'.scrobbleDeleteFails = runStats.scrobbleDeleteFails + 1
               /\ deletedScrobbles' = Append(deletedScrobbles, comparison'.current)
               /\ runStats'.processedScrobbles = runStats.processedScrobbles + 1
               /\ previousScrobble' # <<>>
               /\ pc' = IF Tail(scrobbles) # <<>> THEN "process"
                        ELSE IF currentPage > EndPage THEN "fetch"
                        ELSE "scanned"
          ELSE runStats'.scrobbleDeleteFails = runStats.scrobbleDeleteFails]_vars

\* After a delete that failed, a later scrobble has been resolved and
\* classified, and both records are in DeletedScrobbles.
C18_ClassifiedAfterFailedDelete ==
    /\ runStats.scrobbleDeleteFails = 1
    /\ resolution.called
    /\ resolution.err = "nil"
    /\ comparison.compared
    /\ comparison.kind # "none"
    /\ ~comparison.deleteErr
    /\ Len(deletedScrobbles) = 2

\* C19: in a run with CanDelete off no step calls deleteScrobble and
\* scrobbleDeleteFails stays 0, while every scrobble that was resolved and
\* has a previous scrobble is classified against it as in any run, and the
\* current scrobble of every classified pair, and nothing else, is appended
\* to DeletedScrobbles.
C19_DryRunClassifiesWithoutDeleting ==
    [][~config.CanDelete =>
        /\ deleteRequests' = <<>>
        /\ runStats'.scrobbleDeleteFails = 0
        /\ (resolution'.called /\ resolution'.err = "nil" /\ previousScrobble # <<>>) =>
              /\ comparison'.compared
              /\ comparison'.previous = previousScrobble[1]
              /\ comparison'.current =
                    [Head(scrobbles) EXCEPT !.trackDuration = resolution'.trackDuration]
              /\ comparison'.kind =
                    classification(config, comparison'.previous, comparison'.current)
        /\ deletedScrobbles' =
              IF comparison'.compared /\ comparison'.kind # "none"
              THEN Append(deletedScrobbles, comparison'.current)
              ELSE deletedScrobbles]_vars

\* A dry run has classified a pair as incomplete and recorded it.
C19_DryRunRecordedIncomplete ==
    /\ ~config.CanDelete
    /\ comparison.compared
    /\ comparison.kind = "incomplete"
    /\ deletedScrobbles # <<>>
    /\ deletedScrobbles[Len(deletedScrobbles)] = comparison.current
    /\ deleteRequests = <<>>

\* C20: a run that deletes and a dry run over the same history, with the
\* same durations, overrides, cache and thresholds, have the same
\* DeletedScrobbles and the same processedScrobbles,
\* skippedScrobbleUnknownDuration, cacheHits, cacheMisses and
\* unknownTrackDurationsCount, whatever the delete requests of the first
\* run returned.
C20_SameReportInBothModes ==
    dryRun.on =>
        /\ deletedScrobbles = dryRun.deleted
        /\ runStats.processedScrobbles = dryRun.stats.processedScrobbles
        /\ runStats.skippedScrobbleUnknownDuration =
                dryRun.stats.skippedScrobbleUnknownDuration
        /\ runStats.cacheHits = dryRun.stats.cacheHits
        /\ runStats.cacheMisses = dryRun.stats.cacheMisses
        /\ runStats.unknownTrackDurationsCount =
                dryRun.stats.unknownTrackDurationsCount

\* The live run's delete of an incomplete scrobble failed, and the two runs
\* go on with different previous scrobbles.
C20_PreviousDiffersAfterFailedDelete ==
    /\ dryRun.on
    /\ comparison.compared
    /\ comparison.kind = "incomplete"
    /\ comparison.deleteErr
    /\ previousScrobble # dryRun.previous
    /\ deletedScrobbles = dryRun.deleted

(***************************************************************************)
(* Properties of the end of the run (SpecFinish, SpecPersist).             *)
(***************************************************************************)
\* track-durations.yaml can be parsed and has an entry for every pair of
\* c.unknownTrackDurations.
UnknownPersisted ==
    LET onDisk == Unmarshal(durationsFile)
    IN ~onDisk.err /\ unknownTrackDurations \subseteq DOMAIN onDisk.m

\* The CSV file has been created and holds one record for every scrobble of
\* c.deletedScrobbles.
DeletedExported ==
    /\ csvFile.created
    /\ \E f \in Permutations(1..Len(deletedScrobbles)) :
        csvFile.rows = [i \in 1..Len(deletedScrobbles) |-> csvRecord(deletedScrobbles[f[i]])]

\* C21: when a signal arrived during the scan and the interrupt handler
\* has exited the process, the unknown durations accumulated (if any) are
\* in track-durations.yaml and the deleted scrobbles accumulated (if any)
\* are in the CSV file.
C21_InterruptPersistsAndExports ==
    (handler = "exited" /\ finishCalls.signal \in {"fetch", "process"}) =>
        /\ unknownTrackDurations # {} => UnknownPersisted
        /\ deletedScrobbles # <<>> => DeletedExported

\* An interrupted run that exited with both accumulators saved.
C21_InterruptedAndSaved ==
    /\ handler = "exited"
    /\ finishCalls.signal = "process"
    /\ pc \in {"fetch", "process"}
    /\ <<"A", "Y">> \in unknownTrackDurations
    /\ UnknownPersisted
    /\ deletedScrobbles # <<>>
    /\ DeletedExported

\* C22: when writeUnknownTrackDurations has written the file and returned
\* without error, the file parses to a mapping that has every entry of the
\* file as it was, with its value, and every unknown pair without such an
\* entry, with the empty marker.
C22_PersistedIsMerge ==
    [][(pc = "writeUnknown" /\ pc' = "export" /\ durationsFile' # durationsFile) =>
        LET before == getUserTrackDurations(durationsFile).m
            onDisk == Unmarshal(durationsFile')
        IN /\ ~onDisk.err
           /\ \A p \in DOMAIN before :
                p \in DOMAIN onDisk.m /\ onDisk.m[p] = before[p]
           /\ \A p \in unknownTrackDurations \ DOMAIN before :
                p \in DOMAIN onDisk.m /\ onDisk.m[p] = ""]_vars

\* A written file that holds an earlier duration and a new empty marker.
C22_MergedFileWritten ==
    /\ pc = "export"
    /\ finishCalls.writeUnknown = 1
    /\ ~Unmarshal(durationsFile).err
    /\ <<"A", "X">> \in DOMAIN userTrackDurations
    /\ userTrackDurations[<<"A", "X">>] = "4m0s"
    /\ Unmarshal(durationsFile).m[<<"A", "X">>] = "4m0s"
    /\ <<"A", "Y">> \notin DOMAIN userTrackDurations
    /\ <<"A", "Y">> \in DOMAIN Unmarshal(durationsFile).m
    /\ Unmarshal(durationsFile).m[<<"A", "Y">>] = ""

(***************************************************************************)
(* Properties of the file cache (SpecFile, SpecLoad).                      *)
(***************************************************************************)

\* C23: a Get of a key that returns after a Set of that key on the same
\* cache gives the value of the last such Set and never a miss, whatever
\* the flusher did in between.
C23_GetAfterSet ==
    [][(filePc.caller = "get" /\ filePc'.caller = "ready"
        /\ callerOp.key \in DOMAIN fileLog.sets)
       => /\ callerOp'.op = "got"
          /\ callerOp'.result.miss = FALSE
          /\ callerOp'.result.value = fileLog.sets[callerOp.key]]_vars

\* A Get has returned the value of a Set that changed the key, with a
\* compaction of the flusher under way.
C23_GotWhatWasSet ==
    /\ callerOp.op = "got"
    /\ callerOp.key = <<"k">>
    /\ callerOp.key \in DOMAIN fileLog.sets
    /\ callerOp.result = [miss |-> FALSE, value |-> <<"=", "w">>]
    /\ diskFile = <<formatLine(<<"k">>, <<"v">>)>>
    /\ filePc.flusher = "lock"
    /\ fileLog.ticked

\* The line is the key, an "=" and something more, and the key has no "=".
LineOfKey(line, key) ==
    /\ Len(line) > Len(key)
    /\ SubSeq(line, 1, Len(key)) = key
    /\ line[Len(key) + 1] = "="
    /\ \A j \in 1..Len(key) : key[j] # "="

\* The beginnings of the lines of the file.
LinePrefixes ==
    {SubSeq(diskFile[i], 1, n) : <<i, n>> \in
        {p \in (1..Len(diskFile)) \X (0..3) : p[2] <= Len(diskFile[p[1]])}}

\* C24: after the file is loaded, the keys of the map are the keys of the
\* lines with an "=" (what stands before the first "="), each with what
\* follows the first "=" of the last line of that key; a line without "="
\* gives no key.
C24_LoadLastLineWins ==
    callerOp.op = "loaded" =>
        /\ \A key \in DOMAIN data :
               \E i \in 1..Len(diskFile) : LineOfKey(diskFile[i], key)
        /\ \A key \in LinePrefixes :
               \A i \in 1..Len(diskFile) :
                   (/\ LineOfKey(diskFile[i], key)
                    /\ \A j \in (i + 1)..Len(diskFile) : ~LineOfKey(diskFile[j], key))
                   => /\ key \in DOMAIN data
                      /\ data[key] = SubSeq(diskFile[i], Len(key) + 2, Len(diskFile[i]))

\* A file with two lines of one key, the second with an "=" in its value,
\* and a line without "=" is loaded.
C24_LoadedDuplicateKey ==
    /\ callerOp.op = "loaded"
    /\ diskFile = <<<<"k", "=", "v">>, <<"k", "=", "=", "w">>, <<"k">>>>
    /\ data = (<<"k">> :> <<"=", "w">>)

CompleteSnapshot(lines, d) ==
    /\ Len(lines) = Cardinality(DOMAIN d)
    /\ \A key \in DOMAIN d :
           \E i \in 1..Len(lines) : lines[i] = key \o <<"=">> \o d[key]

\* C26: every step, a failing step of a compaction included, leaves the
\* file at the path as it was or makes it a complete snapshot of the map,
\* and only a Set changes the map.
C26_FileReplacedAtomically ==
    [][/\ diskFile' = diskFile \/ CompleteSnapshot(diskFile', data)
       /\ data' # data => (filePc.caller = "set" /\ filePc'.caller = "ready")]_vars

\* A compaction of the flusher has failed after writing part of the map
\* to the temporary file; the file at the path still has its old content
\* and the map its two entries.
C26_FailedCompactionLeftOldFile ==
    /\ fileLog.ticked
    /\ filePc.flusher = "idle"
    /\ mu = "free"
    /\ tmpFile.exists
    /\ Len(tmpFile.lines) = 1
    /\ Cardinality(DOMAIN data) = 2
    /\ data = fileLog.sets
    /\ diskFile = <<formatLine(<<"k">>, <<"v">>)>>

\* C27: the flusher does not hold the lock while it creates, writes or
\* syncs the temporary file, so no Get or Set waits for those steps.
C27_WritesOutsideLock ==
    filePc.flusher \in {"openTmp", "write", "sync"} => mu # "flusher"

\* A Set waits for the lock while the flusher, holding it, is about to
\* sync the temporary file.
C27_SetWaitsForSync ==
    /\ filePc.caller = "set"
    /\ mu = "flusher"
    /\ filePc.flusher = "sync"

\* C28: once Close has returned, the flusher takes no further step: no
\* compaction starts or goes on, and neither the file at the path, the
\* temporary file nor the handle is touched.
C28_NoCompactionAfterClose ==
    [][filePc.caller = "closed"
       => /\ filePc'.flusher = filePc.flusher
          /\ diskFile' = diskFile
          /\ tmpFile' = tmpFile
          /\ fileHandle' = fileHandle]_vars

\* After Close has returned, a compaction started by a later tick has
\* renamed its snapshot over the file and stands before the closed handle.
C28_RenamedAfterClose ==
    /\ filePc.caller = "closed"
    /\ fileHandle = "closed"
    /\ fileLog.closeFlush = "failed"
    /\ filePc.flusher = "reopen"
    /\ CompleteSnapshot(diskFile, data)
    /\ load(diskFile) # load(<<formatLine(<<"k">>, <<"v">>)>>)

(***************************************************************************)
(* Properties of Run and of the page walk (SpecStart, SpecChrono).         *)
(***************************************************************************)

\* A threshold outside 0..100, a start page together with a From or To
\* date, or a From date after the To date.
InvalidConfig ==
    \/ config.DuplicateThreshold \notin 0..100
    \/ config.CompleteThreshold \notin 0..100
    \/ config.StartPage # 0 /\ (config.From # 0 \/ config.To # 0)
    \/ config.From # 0 /\ config.To # 0 /\ config.From > config.To

\* C29: with an invalid configuration Run stands before checkConfig or has
\* returned its error: no cache was created, no server pinged, no browser
\* started, no login, no page fetched, no duration looked up, no deletion
\* asked for, no scrobble processed.
C29_InvalidConfigFailsFast ==
    InvalidConfig =>
        /\ pc \in {"checkConfig", "invalidConfig"}
        /\ runLog = <<>>
        /\ cache = <<>>
        /\ pageFetch = NoFetch
        /\ resolution = NoResolution
        /\ deleteRequests = <<>>
        /\ runStats = NoStats

\* Run has returned the error of checkConfig for a threshold of 101 in a
\* configuration that is otherwise in order.
C29_RejectedThreshold ==
    /\ pc = "invalidConfig"
    /\ config.DuplicateThreshold = 101
    /\ config.CompleteThreshold = 50
    /\ config.StartPage = 0
    /\ config.From = 1 /\ config.To = 2
    /\ config.CacheType = "redis" /\ config.RedisURL = "set"
    /\ config.TelegramBotToken = "set"
    /\ runLog = <<>>

C32_RecordedIsSelected ==
    [][deletedScrobbles' # deletedScrobbles =>
        /\ comparison'.compared
        /\ comparison'.kind \in {"duplicate", "incomplete"}
        /\ deletedScrobbles' =
              Append(deletedScrobbles,
                     IF comparison'.kind = "duplicate"
                     THEN comparison'.previous ELSE comparison'.current)]_vars

\* A duplicate of two scrobbles with different timestamps: the delete was
\* asked for the previous one, the record appended is the current one.
C32_DuplicateRecordedCurrent ==
    /\ comparison.compared
    /\ comparison.kind = "duplicate"
    /\ comparison.previous.timestampString # comparison.current.timestampString
    /\ deleteRequests # <<>>
    /\ deleteRequests[1].timestamp = comparison.previous.timestampString
    /\ deletedScrobbles # <<>>
    /\ deletedScrobbles[Len(deletedScrobbles)].timestampString
            = comparison.current.timestampString

\* C34: whenever getTrackDuration returns nil, the duration it left in the
\* scrobble is strictly positive, whatever path the resolution took.
C34_ResolvedDurationPositive ==
    (resolution.called /\ resolution.err = "nil") => resolution.trackDuration > 0

\* A resolution has returned nil with a duration of 0 and the scrobble was
\* compared with its predecessor.
C34_ZeroDurationClassified ==
    /\ resolution.called
    /\ resolution.err = "nil"
    /\ resolution.trackDuration = 0
    /\ comparison.compared
    /\ comparison.current.trackDuration = 0

\* C33: a getScrobbles whose navigation to the page failed does not return
\* rows: the failure goes through the retries of the page walk and ends in
\* a page that was navigated to or in the abort of the walk, so the
\* scrobbles of the page shown before are not returned a second time.
C33_NavigationFailureIsFetchFailure ==
    [][Len(runLog') > Len(runLog) => runLog'[Len(runLog')].navigated]_vars

\* The walk over two pages is over; the navigation to page 1 failed and the
\* scrobbles of page 2 were returned and processed a second time.
C33_PageProcessedTwice ==
    /\ pc = "scanned"
    /\ Len(runLog) = 2
    /\ runLog[1].page = 2 /\ runLog[1].navigated
    /\ runLog[2].page = 1 /\ ~runLog[2].navigated
    /\ runLog[1].scrobbles # <<>>
    /\ runLog[2].scrobbles = runLog[1].scrobbles
    /\ runStats.processedScrobbles = 2 * Len(runLog[1].scrobbles)

\* C35: in a run that deletes, the scrobble carried on as previous is not
\* one whose deletion succeeded: after the previous scrobble of a duplicate
\* was deleted the current one is carried on, after the current scrobble of
\* an incomplete pair was deleted the old previous one is.
C35_DeletedNeverCarried ==
    [][(/\ config.CanDelete
        /\ comparison'.compared
        /\ comparison'.kind \in {"duplicate", "incomplete"}
        /\ deleteRequests' # <<>>
        /\ ~comparison'.deleteErr)
       => previousScrobble' = IF comparison'.kind = "duplicate"
                              THEN <<comparison'.current>>
                              ELSE <<comparison'.previous>>]_vars

\* The current scrobble of an incomplete pair was deleted and the old
\* previous one, a different scrobble, is carried on.
C35_CarriedOldPrevious ==
    /\ config.CanDelete
    /\ comparison.compared
    /\ comparison.kind = "incomplete"
    /\ ~comparison.deleteErr
    /\ deleteRequests # <<>>
    /\ deleteRequests[Len(deleteRequests)].timestamp = comparison.current.timestampString
    /\ comparison.previous.timestampString # comparison.current.timestampString
    /\ previousScrobble = <<comparison.previous>>

\* C40: after every processed scrobble, unknownTrackDurationsCount is the
\* number of pairs in c.unknownTrackDurations, no scrobble of the site is
\* twice in c.deletedScrobbles (the site showing every scrobble once, equal
\* records are one scrobble), and the skipped and the recorded scrobbles
\* together are at most the processed ones.
C40_CountersAndNoRepeats ==
    /\ runStats.unknownTrackDurationsCount = Cardinality(unknownTrackDurations)
    /\ runStats.skippedScrobbleUnknownDuration + Len(deletedScrobbles)
          <= runStats.processedScrobbles
    /\ \A i \in 1..Len(deletedScrobbles), j \in 1..Len(deletedScrobbles) :
           i # j => deletedScrobbles[i] # deletedScrobbles[j]

\* The walk is over; the scrobbles of page 2 were returned again for page
\* 1 after a failed navigation, and the scrobble recorded on page 2 is in
\* the list twice.
C40_RecordedTwice ==
    /\ pc = "scanned"
    /\ Len(runLog) = 2
    /\ ~runLog[2].navigated
    /\ Len(deletedScrobbles) = 2
    /\ deletedScrobbles[1] = deletedScrobbles[2]
    /\ runStats.processedScrobbles = 4

(***************************************************************************)
(* Further properties of the end of the run (SpecFinish, SpecExport).      *)
(***************************************************************************)

\* C36: while the interrupt handler is in finishRun, the page walk takes
\* no step: it does not go on, and the statistics and the cache that
\* finishRun reports and closes are not written.
C36_ScanStoppedWhileFinalizing ==
    [][(handler \in {"logStats", "writeUnknown", "export", "close"})
       => /\ scrobbles' = scrobbles
          /\ currentPage' = currentPage
          /\ runStats' = runStats
          /\ cache' = cache
          /\ (pc \in {"fetch", "process"} => pc' = pc)]_vars

\* The signal came before the first page was fetched; the handler has
\* reported the statistics and stands before the export, and the walk,
\* still going on, has meanwhile processed scrobbles and recorded one.
C36_ScanBesideHandler ==
    /\ handler = "export"
    /\ finishCalls.signal = "fetch"
    /\ startPage = 1
    /\ pc = "process"
    /\ scrobbles # <<>>
    /\ runStats.processedScrobbles > 0
    /\ deletedScrobbles # <<>>

\* C37: in one run the statistics are reported at most once, the deleted
\* scrobbles exported at most once and the cache and the browser closed at
\* most once.
C37_FinishRunAtMostOnce ==
    /\ finishCalls.logStats <= 1
    /\ finishCalls.export <= 1
    /\ finishCalls.close <= 1

\* The signal came when the walk was over; finishRun has run to its end on
\* the main goroutine and in the handler.
C37_FinishedTwice ==
    /\ finishCalls.signal = "scanned"
    /\ finishCalls.logStats = 2
    /\ finishCalls.export = 2
    /\ finishCalls.close = 2

\* C38: when finishRun has returned in a run without a signal, a non-empty
\* c.unknownTrackDurations has been handed to writeUnknownTrackDurations
\* and a non-empty c.deletedScrobbles to exportScrobblesToCSV, whether or
\* not the statistics could be sent and the unknown durations written.
C38_FinalizeStepsIndependent ==
    (finishCalls.signal = "" /\ pc \in {"finished", "returned"}) =>
        /\ unknownTrackDurations # {} => finishCalls.writeUnknown > 0
        /\ deletedScrobbles # <<>> => finishCalls.export > 0

\* Run has returned without a signal: the statistics could not be sent and
\* neither the unknown durations nor the deleted scrobbles were saved.
C38_NothingSavedAfterFailedSend ==
    /\ pc = "returned"
    /\ finishCalls.signal = ""
    /\ telegramBot
    /\ finishCalls.logStats = 1
    /\ finishCalls.writeUnknown = 0
    /\ finishCalls.export = 0
    /\ finishCalls.close = 1
    /\ unknownTrackDurations # {}
    /\ deletedScrobbles # <<>>
    /\ ~csvFile.created

\* C39: when the page walk has given up on a page and Run has returned the
\* error, the deleted scrobbles and unknown durations found so far are
\* saved and the cache is closed.
C39_AbortSavesProgress ==
    pc = "aborted" =>
        /\ deletedScrobbles # <<>> => csvFile.created
        /\ unknownTrackDurations # {} => finishCalls.writeUnknown > 0
        /\ finishCalls.close > 0

\* Page 2 was processed and a scrobble recorded; the fetch of page 1 failed
\* and Run returned with nothing exported and nothing closed.
C39_AbortedWithRecords ==
    /\ pc = "aborted"
    /\ startPage = 2
    /\ currentPage = 1
    /\ pageFetch.err
    /\ deletedScrobbles # <<>>
    /\ ~csvFile.created
    /\ finishCalls = NoFinishCalls

====
